---------------------------- MODULE Spec2Model ----------------------------
(***************************************************************************)
(* The persistence and session layer of the tailor's measurement book      *)
(* (src/App.tsx, first revision in the file, lines 1-716): React state,    *)
(* the durable browser storage, the Google Drive / Sheets backend and the  *)
(* asynchronous chains of the handlers, one action per handler or per      *)
(* continuation after an await.                                            *)
(***************************************************************************)
EXTENDS Integers, Sequences, FiniteSets, TLC

(***************************************************************************)
(* Bounds of the model.                                                    *)
(***************************************************************************)
\* the clock runs from 0 to MaxTime, and the user acts MaxTime times
MaxTime == 2
\* the counters of remote requests of one operation saturate at MaxCount
MaxCount == 2
\* at most MaxFaults external calls of a run fail
MaxFaults == 1

Null == "null"

(***************************************************************************)
(* src/types.ts: the schema and the default record.                        *)
(***************************************************************************)
SHEET_FIELD_ORDER ==
  << "id", "name", "nickname", "address", "phone", "measurementDate", "unit",
     "frontLength", "backLength", "sideLength", "shoulder", "frontShoulderWidth",
     "backShoulderWidth", "neckCircumference", "armhole", "chestCircumference",
     "bustDistance", "bustHeight", "waistCircumference", "upperHipCircumference",
     "hipCircumference", "skirtLength", "sleeveLength", "sleeveWidthAtElbow",
     "shirtLengthToWrist", "overallLength", "sittingWaist", "waistToKnee",
     "kneeCircumference", "thighCircumference", "calfCircumference",
     "waistToAnkleLength", "ankleCircumference", "crotchDepth",
     "notes", "fabricSampleDescription" >>

NumFields == Len(SHEET_FIELD_ORDER)

FieldNames == { SHEET_FIELD_ORDER[i] : i \in 1..NumFields }

initialMeasurementState ==
  [ f \in FieldNames |-> IF f = "unit" THEN "inch" ELSE "" ]

\* { ...a, ...b }: the fields of b over those of a
Spread(a, b) ==
  [ f \in (DOMAIN a) \cup (DOMAIN b) |-> IF f \in DOMAIN b THEN b[f] ELSE a[f] ]

\* a truthy rowIndex: present and not 0
HasRowIndex(m) == "rowIndex" \in DOMAIN m /\ m["rowIndex"] # 0

(***************************************************************************)
(* Rows and records (src/App.tsx 23-37).  A row is a sequence of cells;    *)
(* a cell the backend did not return is undefined, which is a position     *)
(* beyond the length of the row.                                           *)
(***************************************************************************)
\* rowToMeasurement that takes an empty cell for a missing one
rowToMeasurementSkipsEmpty(row, rowIndex) ==
  LET measurement ==
        [ f \in { SHEET_FIELD_ORDER[i] : i \in { j \in 1..NumFields : j <= Len(row) /\ row[j] # "" } }
            |-> row[CHOOSE i \in 1..NumFields : SHEET_FIELD_ORDER[i] = f] ]
      fullMeasurement == Spread(initialMeasurementState, measurement)
  IN  Spread(fullMeasurement, [ f \in {"rowIndex"} |-> rowIndex ])

rowToMeasurement(row, rowIndex) ==
  LET measurement ==
        [ f \in { SHEET_FIELD_ORDER[i] : i \in 1..(IF Len(row) < NumFields THEN Len(row) ELSE NumFields) }
            |-> row[CHOOSE i \in 1..NumFields : SHEET_FIELD_ORDER[i] = f] ]
      fullMeasurement == Spread(initialMeasurementState, measurement)
  IN  Spread(fullMeasurement, [ f \in {"rowIndex"} |-> rowIndex ])

measurementToRow(measurement) ==
  [ i \in 1..NumFields |->
      IF SHEET_FIELD_ORDER[i] \in DOMAIN measurement
        THEN measurement[SHEET_FIELD_ORDER[i]] ELSE "" ]


(***************************************************************************)
(* State.                                                                  *)
(*   app    the React state of the App component (src/App.tsx 47-60)       *)
(*   store  the durable browser storage (localStorage)                     *)
(*   net    the external calls in flight and the loaded libraries          *)
(*   remote the user's Drive and the spreadsheet in it                     *)
(*   eff    the chain started by the effect on the session state           *)
(*          (findOrCreateUserSpreadsheet and what it awaits)               *)
(*   op     the chain of a remote save or delete                           *)
(*   pend   which effects React still has to run for the last render       *)
(*   now    the clock (Date.now())                                         *)
(*   hist   what the current operation has done so far (history only),     *)
(*          how many external calls of the run have failed, and how often  *)
(*          the last token response called the stored continuation         *)
(***************************************************************************)
VARIABLES app, store, net, remote, eff, op, pend, now, hist

vars == << app, store, net, remote, eff, op, pend, now, hist >>

\* the token of a session kept in the browser, and the token of a new sign-in
StoredToken == "t1"
FreshToken == "t2"

NoMeasurement == [ null |-> TRUE ]
NoAction == [ kind |-> "none" ]
NoClient == [ ready |-> FALSE ]
NoRequest == [ pending |-> FALSE ]
NoBlob == [ state |-> "absent" ]
NoExpiry == -1
\* a chain awaits the response named by pc; token and sid are the arguments the
\* running functions were called with, after is where setupSheetHeaders returns to
IdleChain == [ pc |-> "idle", kind |-> "none", token |-> Null, sid |-> Null,
               after |-> "none", m |-> NoMeasurement ]

\* the records the model works with
Rec(id, name, date) ==
  [ f \in FieldNames |->
      CASE f = "id" -> id
        [] f = "name" -> name
        [] f = "measurementDate" -> date
        [] f = "unit" -> "cm"
        [] OTHER -> "" ]

\* the clock `now` starts at 2024-06-01T00:00Z; a day is DayTicks of it long
DayTicks == 4

\* new Date(t).toISOString().split('T')[0]: the date of the instant t in UTC
ToISODate(t) ==
  IF t < DayTicks THEN "2024-06-01"
  ELSE IF t < 2 * DayTicks THEN "2024-06-02"
  ELSE "2024-06-03"

\* new Date().toISOString().split('T')[0]
Today == ToISODate(now)

\* new Date(s || 0).getTime(), up to order
DateTime(s) ==
  CASE s = "" -> 0
    [] s = "2024-01-02" -> 2
    [] s = "2024-01-03" -> 3
    [] s = "2024-06-01" -> 6
    [] s = "2024-06-02" -> 7
    [] s = "2024-06-03" -> 8
    [] OTHER -> 1

\* Date.now().toString()
TimestampId == ToString(now)

(***************************************************************************)
(* The world a synchronous piece of code works on: the handlers below map  *)
(* a world to a world, so that a handler calling another is a composition. *)
(* fresh: setActionRequiresAuth was given a new closure.                   *)
(***************************************************************************)
World == [ app |-> app, store |-> store, net |-> net, eff |-> eff, op |-> op,
           hist |-> hist, fresh |-> FALSE ]

\* src/App.tsx 121-126: the stored records, completed from the default record;
\* none when the key is absent or its value does not parse
ParseStored(blob) ==
  IF blob.state = "ok"
    THEN [ i \in DOMAIN blob.items |-> Spread(initialMeasurementState, blob.items[i]) ]
    ELSE << >>

\* src/App.tsx 118-136.  cSignedIn is isSignedIn as the closure captured it.
loadMeasurementsFromLocalStorage(w, cSignedIn) ==
  LET blob == w.store.blob
      parsed == ParseStored(blob)
      status == IF cSignedIn THEN w.app.statusMessage
                ELSE IF blob.state = "corrupt" THEN "ERROR_LOADING_LOCAL_DATA"
                ELSE "USING_LOCAL_STORAGE"
  IN  [ w EXCEPT !.app.measurements = parsed,
                 !.app.statusMessage = status,
                 !.app.isLoading = FALSE ]

\* localStorage.removeItem of the three session keys
RemoveSessionKeys(w) ==
  [ w EXCEPT !.store.token = Null, !.store.expiry = NoExpiry, !.store.signedIn = Null ]

\* handleSignoutLogic that leaves the session keys in localStorage
handleSignoutLogicKeepsKeys(w, isAutoSignoutDueToError, cSignedIn) ==
  loadMeasurementsFromLocalStorage(
    [ w EXCEPT !.app.accessToken = Null,
               !.app.isSignedIn = FALSE,
               !.app.userSpreadsheetId = Null,
               !.app.actionRequiresAuth = NoAction,
               !.app.statusMessage =
                  IF isAutoSignoutDueToError THEN "SESSION_EXPIRED_SIGN_IN"
                                             ELSE "SIGNED_OUT_USING_LOCAL" ],
    cSignedIn)

\* src/App.tsx 138-156
handleSignoutLogic(w, isAutoSignoutDueToError, cSignedIn) ==
  LET w1 == RemoveSessionKeys(w)
      w2 == [ w1 EXCEPT !.app.accessToken = Null,
                        !.app.isSignedIn = FALSE,
                        !.app.userSpreadsheetId = Null,
                        !.app.actionRequiresAuth = NoAction,
                        !.app.statusMessage =
                           IF isAutoSignoutDueToError THEN "SESSION_EXPIRED_SIGN_IN"
                                                      ELSE "SIGNED_OUT_USING_LOCAL" ]
  IN  loadMeasurementsFromLocalStorage(w2, cSignedIn)

\* src/App.tsx 158-170.  cToken and cSignedIn are accessToken and isSignedIn as
\* the closure captured them; the revocation calls back later.
handleSignoutClick(w, isAutoSignoutDueToError, cToken, cSignedIn) ==
  IF cToken # Null /\ w.net.google
    THEN [ w EXCEPT !.net.revokes = @ \cup
             { [ auto |-> isAutoSignoutDueToError, signedIn |-> cSignedIn ] } ]
    ELSE handleSignoutLogic(w, isAutoSignoutDueToError, cSignedIn)

\* src/App.tsx 395-407.  cClient is tokenClient as the closure captured it.
handleAuthClick(w, cClient) ==
  IF ~cClient.ready
    THEN [ w EXCEPT !.app.statusMessage = "ERROR_GIS_NOT_READY" ]
    ELSE [ w EXCEPT !.net.tokenReq = [ pending |-> TRUE, ara |-> cClient.ara,
                                       signedIn |-> cClient.signedIn ] ]

\* a write that, when it fails, has removed the value of the key
saveMeasurementsToLocalStorageLosesBlob(w, currentMeasurements, writeOk) ==
  IF writeOk
    THEN [ w EXCEPT !.store.blob = [ state |-> "ok", items |-> currentMeasurements ],
                    !.hist.lost = FALSE ]
    ELSE [ w EXCEPT !.app.statusMessage = "ERROR_SAVING_LOCAL_DATA",
                    !.store.blob = NoBlob,
                    !.hist.faults = @ + 1,
                    !.hist.lost = TRUE ]

\* src/App.tsx 409-417: the write fails when the storage is full
\* (hist.lost: the last write of the key failed)
saveMeasurementsToLocalStorage(w, currentMeasurements, writeOk) ==
  IF writeOk
    THEN [ w EXCEPT !.store.blob = [ state |-> "ok", items |-> currentMeasurements ],
                    !.hist.lost = FALSE ]
    ELSE [ w EXCEPT !.app.statusMessage = "ERROR_SAVING_LOCAL_DATA",
                    !.hist.faults = @ + 1,
                    !.hist.lost = TRUE ]


(***************************************************************************)
(* The backend.  A request ends with a result or with an error             *)
(* { result: { error: { code, status, message } } }.                       *)
(***************************************************************************)
E401 == [ code |-> 401, status |-> "UNAUTHENTICATED", message |-> "invalid credentials" ]
E403 == [ code |-> 403, status |-> "PERMISSION_DENIED", message |-> "no permission" ]
E400 == [ code |-> 400, status |-> "INVALID_ARGUMENT", message |-> "unable to parse range" ]
E500 == [ code |-> 500, status |-> "INTERNAL", message |-> "internal error" ]
Ok == [ code |-> 200, status |-> "OK", message |-> "" ]

Errors == { E401, E403, E400, E500 }

\* the test of the catch blocks of findOrCreateUserSpreadsheet, setupSheetHeaders,
\* handleSave and handleDelete (207, 439, 543, 595)
IsAuthError(e) == e.code = 401 \/ e.code = 403 \/ e.status = "UNAUTHENTICATED"

\* the first test of the catch block of loadMeasurementsFromSheet (478)
IsLoadAuthError(e) ==
  e.code = 401 \/ e.code = 403 \/ e.status = "UNAUTHENTICATED"
    \/ e.status = "PERMISSION_DENIED"

\* the second test of the catch block of loadMeasurementsFromSheet (480)
IsSheetNotFound(e) ==
  \/ e.status = "NOT_FOUND"
  \/ e.message = "requested entity was not found"
  \/ (e.code = 400 /\ e.message = "unable to parse range")

Max(a, b) == IF a > b THEN a ELSE b

\* the length of a row without its trailing empty cells
RECURSIVE TrimmedLen(_)
TrimmedLen(row) ==
  IF row = << >> THEN 0
  ELSE IF row[Len(row)] # "" THEN Len(row)
  ELSE TrimmedLen(SubSeq(row, 1, Len(row) - 1))

\* the number of rows up to the last row that holds a value
RECURSIVE UsedRows(_)
UsedRows(rows) ==
  IF rows = << >> THEN 0
  ELSE IF TrimmedLen(rows[Len(rows)]) > 0 THEN Len(rows)
  ELSE UsedRows(SubSeq(rows, 1, Len(rows) - 1))

\* spreadsheets.values.get of SHEET_NAME!A:AZ: the rows up to the last one
\* that holds a value, each without its trailing empty cells
ReadValues(rows) ==
  [ i \in 1..UsedRows(rows) |-> SubSeq(rows[i], 1, TrimmedLen(rows[i])) ]

\* writing cells over a row from column A on
Overwrite(old, new) ==
  [ i \in 1..Max(Len(old), Len(new)) |-> IF i <= Len(new) THEN new[i] ELSE old[i] ]

\* a write that inserts the row before line k instead of writing over line k
InsertRowAt(rows, k, data) ==
  [ i \in 1..(Max(Len(rows), k - 1) + 1) |->
      IF i = k THEN data
      ELSE IF i < k THEN (IF i <= Len(rows) THEN rows[i] ELSE << >>)
      ELSE rows[i - 1] ]

\* spreadsheets.values.update of the range SHEET_NAME!A<k> with one row
UpdateRow(rows, k, data) ==
  [ i \in 1..Max(Len(rows), k) |->
      IF i = k THEN Overwrite(IF i <= Len(rows) THEN rows[i] ELSE << >>, data)
      ELSE IF i <= Len(rows) THEN rows[i] ELSE << >> ]

\* spreadsheets.values.append with INSERT_ROWS: a row after the last used one
AppendRow(rows, data) == UpdateRow(rows, UsedRows(rows) + 1, data)

\* a deleteDimension of the range [k, k+1): the line below line k goes
DeleteRowBelow(rows, k) ==
  IF k + 1 <= Len(rows)
    THEN [ i \in 1..(Len(rows) - 1) |-> IF i < k + 1 THEN rows[i] ELSE rows[i + 1] ]
    ELSE rows

\* batchUpdate deleteDimension ROWS [k-1, k)
DeleteRow(rows, k) ==
  IF k <= Len(rows)
    THEN [ i \in 1..(Len(rows) - 1) |-> IF i < k THEN rows[i] ELSE rows[i + 1] ]
    ELSE rows

SpreadsheetId == "sheet-1"


(***************************************************************************)
(* History of one chain, reset when the chain starts: what it has asked    *)
(* of the backend and how that ended.  Read by the properties only; the    *)
(* count of failed external calls bounds the run.                          *)
(***************************************************************************)
NoHistory ==
  [ kind |-> "none",       \* "load", "save" or "delete": what started the chain
    repairs |-> 0,         \* setupSheetHeaders calls because of a header mismatch
    rereads |-> 0,         \* values.get requests that follow such a repair
    failed |-> FALSE,      \* a request of the chain ended with an error
    authFailed |-> FALSE,  \* ... with 401, 403 or UNAUTHENTICATED
    afterAuth |-> FALSE,   \* a request was sent after that
    nfFailed |-> "none",   \* the request that ended with tab-not-found
    nfSetups |-> 0,        \* setupSheetHeaders calls after that
    nfRetries |-> 0,       \* requests of the same kind after that
    wrote |-> FALSE,       \* the update / append / row deletion succeeded
    failedAt |-> "none",   \* the request answered last, when it ended with an error
    lastError |-> Ok ]     \* ... and that error; Ok when it did not

Chains == { "eff", "op" }

Inc(n) == IF n < MaxCount THEN n + 1 ELSE n

\* the chain sends a request and awaits the response
Issue(w, c, request) ==
  LET h == w.hist[c]
  IN  [ w EXCEPT ![c].pc = request,
                 !.hist[c].afterAuth = h.afterAuth \/ h.authFailed,
                 !.hist[c].rereads =
                    IF request = "read" /\ h.repairs > 0 THEN Inc(h.rereads) ELSE h.rereads,
                 !.hist[c].nfRetries =
                    IF h.nfFailed = request /\ h.nfSetups > 0 THEN Inc(h.nfRetries)
                    ELSE h.nfRetries ]

\* the requests that address the tab
NeedsTab == { "read", "hdr_put", "save_update", "save_append", "del_row" }

\* the error a request for a missing tab ends with, whatever else holds
Natural(request, e) == e = E400 /\ request \in NeedsTab /\ ~remote.tab

\* the request the chain awaited ended with error e
Failed(w, c, e) ==
  [ w EXCEPT !.hist.faults = IF Natural(w[c].pc, e) THEN @ ELSE @ + 1,
             !.hist[c].failed = TRUE,
             !.hist[c].authFailed = @ \/ IsAuthError(e),
             !.hist[c].nfFailed =
                IF @ = "none" /\ IsSheetNotFound(e) /\ ~IsAuthError(e)
                     /\ w[c].pc \in NeedsTab \ { "hdr_put" }
                  THEN w[c].pc ELSE @,
             !.hist[c].failedAt = w[c].pc,
             !.hist[c].lastError = e ]

\* the request the chain awaited ended with a result
Succeeded(w, c) ==
  [ w EXCEPT !.hist[c].failedAt = "none", !.hist[c].lastError = Ok ]

(***************************************************************************)
(* Rendering.  A handler's state updates are committed together; React     *)
(* then runs the effects whose dependencies changed, before anything else. *)
(*   startup effect (273-360): deps onTokenResponse, initializeGapiClient; *)
(*     onTokenResponse changes with actionRequiresAuth and, through        *)
(*     handleSignoutLogic and loadMeasurementsFromLocalStorage, isSignedIn *)
(*   session effect (363-392): deps isSignedIn, accessToken, gapiInited,   *)
(*     gisInited (and callbacks that change with these)                    *)
(***************************************************************************)
StartupDepsChanged(w) ==
  \/ w.app.isSignedIn # app.isSignedIn
  \/ w.app.actionRequiresAuth # app.actionRequiresAuth
  \/ w.fresh

SessionDepsChanged(w) ==
  \/ w.app.isSignedIn # app.isSignedIn
  \/ w.app.accessToken # app.accessToken
  \/ w.app.gapiInited # app.gapiInited
  \/ w.app.gisInited # app.gisInited

Commit(w) ==
  /\ w.hist.faults <= MaxFaults
  /\ app' = w.app
  /\ store' = w.store
  /\ net' = w.net
  /\ eff' = w.eff
  /\ op' = w.op
  /\ hist' = w.hist
  /\ pend' = [ startup |-> pend.startup \/ StartupDepsChanged(w),
               session |-> pend.session \/ SessionDepsChanged(w) ]

\* a startup effect that takes a session for valid up to and including the
\* instant of its expiry
StartupEffectAtExpiry(w, r) ==
  LET w1 == [ w EXCEPT !.app.isLoading = TRUE,
                       !.app.statusMessage = "LOADING_APP_DATA" ]
      stored == w1.store.token # Null /\ w1.store.expiry # NoExpiry
                  /\ w1.store.signedIn = "true"
      valid == stored /\ now <= w1.store.expiry
      w2 == IF valid
              THEN [ w1 EXCEPT !.app.accessToken = w1.store.token,
                               !.app.isSignedIn = TRUE,
                               !.app.statusMessage = "SESSION_RESTORED_LOADING_DATA" ]
              ELSE IF stored THEN RemoveSessionKeys(w1) ELSE w1
  IN  [ w2 EXCEPT !.net.gapiScript = "loading",
                  !.net.gisScript = [ state |-> "loading", restored |-> valid,
                                      gapiInited |-> r.gapiInited,
                                      ara |-> r.actionRequiresAuth,
                                      signedIn |-> r.isSignedIn ] ]

\* src/App.tsx 273-360, the synchronous part: restore the session, start
\* loading the two scripts (whose callbacks capture this render's values)
StartupEffect(w, r) ==
  LET w1 == [ w EXCEPT !.app.isLoading = TRUE,
                       !.app.statusMessage = "LOADING_APP_DATA" ]
      stored == w1.store.token # Null /\ w1.store.expiry # NoExpiry
                  /\ w1.store.signedIn = "true"
      valid == stored /\ now < w1.store.expiry
      w2 == IF valid
              THEN [ w1 EXCEPT !.app.accessToken = w1.store.token,
                               !.app.isSignedIn = TRUE,
                               !.app.statusMessage = "SESSION_RESTORED_LOADING_DATA" ]
              ELSE IF stored THEN RemoveSessionKeys(w1) ELSE w1
  IN  [ w2 EXCEPT !.net.gapiScript = "loading",
                  !.net.gisScript = [ state |-> "loading", restored |-> valid,
                                      gapiInited |-> r.gapiInited,
                                      ara |-> r.actionRequiresAuth,
                                      signedIn |-> r.isSignedIn ] ]

\* src/App.tsx 172-182: the start of findOrCreateUserSpreadsheet, up to the
\* Drive search it awaits
findOrCreateUserSpreadsheet(w, token, cGapiInited) ==
  IF token = Null \/ ~cGapiInited
    THEN [ w EXCEPT !.app.statusMessage = "ERROR_GAPI_NOT_READY",
                    !.app.isLoading = FALSE ]
    ELSE [ w EXCEPT !.app.isLoading = TRUE,
                    !.app.statusMessage = "AUTHENTICATED_SEARCHING_SHEET",
                    !.eff = [ IdleChain EXCEPT !.pc = "drive_list", !.kind = "eff",
                                               !.token = token ],
                    !.hist.eff = [ NoHistory EXCEPT !.kind = "load" ],
                    !.hist.overlap = @ \/ w.eff.pc # "idle" ]

\* src/App.tsx 363-392; r is the state the effect's render saw
SessionEffect(w, r) ==
  IF r.isSignedIn /\ r.accessToken # Null /\ r.gapiInited
    THEN findOrCreateUserSpreadsheet(
           [ w EXCEPT !.app.isLoading = TRUE,
                      !.app.statusMessage = "AUTHENTICATED_INITIALIZING_APIS" ],
           r.accessToken, r.gapiInited)
  ELSE IF ~r.isSignedIn /\ r.gapiInited /\ r.gisInited
    THEN [ loadMeasurementsFromLocalStorage(
             [ w EXCEPT !.app.userSpreadsheetId = Null ], r.isSignedIn)
           EXCEPT !.app.statusMessage = "USING_LOCAL_STORAGE" ]
  ELSE IF r.isSignedIn /\ r.accessToken # Null /\ ~r.gapiInited
    THEN [ w EXCEPT !.app.statusMessage = "AUTHENTICATED_INITIALIZING_APIS",
                    !.app.isLoading = TRUE ]
  ELSE IF ~r.gapiInited \/ ~r.gisInited
    THEN [ w EXCEPT !.app.isLoading = TRUE,
                    !.app.statusMessage =
                       IF r.accessToken = Null THEN "LOADING_APP_DATA_GOOGLE_API" ELSE @ ]
  ELSE w

\* the effects of one render, in the order of their declaration; both read the
\* rendered state, their updates are applied together
RunEffects ==
  /\ pend.startup \/ pend.session
  /\ LET w1 == IF pend.startup THEN StartupEffect(World, app) ELSE World
         w2 == IF pend.session THEN SessionEffect(w1, app) ELSE w1
     IN  /\ app' = w2.app
         /\ store' = w2.store
         /\ net' = w2.net
         /\ eff' = w2.eff
         /\ op' = w2.op
         /\ hist' = w2.hist
         /\ pend' = [ startup |-> StartupDepsChanged(w2),
                      session |-> SessionDepsChanged(w2) ]
  /\ UNCHANGED << remote, now >>

NoEffects == ~pend.startup /\ ~pend.session


(***************************************************************************)
(* The two libraries (src/App.tsx 244-270, 299-353).                       *)
(***************************************************************************)
GapiFailed(w, status) ==
  [ w EXCEPT !.app.statusMessage = status,
             !.app.gapiInited = FALSE,
             !.app.isLoading = FALSE,
             !.net.gapiScript = "failed",
             !.hist.faults = @ + 1 ]

\* src/App.tsx 244-270: gapi.client.init is missing, or settles
initializeGapiClient(w, outcome) ==
  CASE outcome = "no_init" -> GapiFailed(w, "ERROR_GAPI_CLIENT_INIT_NOT_FOUND")
    [] outcome = "rejected" -> GapiFailed(w, "ERROR_INITIALIZING_GAPI")
    [] OTHER -> [ w EXCEPT !.app.gapiInited = TRUE, !.net.gapiScript = "done" ]

\* gapiScript.onload / onerror (303-320) and what onload starts: gapi.load,
\* its callback and initializeGapiClient, which touch no state before the end
GapiOutcomes == { "onerror", "no_init", "rejected", "resolved" }

GapiLoaded ==
  /\ NoEffects
  /\ net.gapiScript = "loading"
  /\ eff.pc = "idle" /\ op.pc = "idle"
  /\ \E outcome \in GapiOutcomes :
       Commit(IF outcome = "onerror"
                THEN GapiFailed(World, "ERROR_GAPI_LOAD_FUNCTION_NOT_FOUND")
                ELSE initializeGapiClient(World, outcome))
  /\ UNCHANGED << remote, now >>

\* gisScript.onload / onerror (327-352); the token client keeps the
\* onTokenResponse of the render the effect ran in
GisLoaded(w, ok) ==
  LET cb == w.net.gisScript
  IN  IF ok
        THEN [ w EXCEPT !.app.tokenClient = [ ready |-> TRUE, ara |-> cb.ara,
                                              signedIn |-> cb.signedIn ],
                        !.app.gisInited = TRUE,
                        !.app.isLoading =
                           IF ~cb.restored /\ cb.gapiInited THEN FALSE ELSE @,
                        !.net.google = TRUE,
                        !.net.gisScript.state = "done" ]
        ELSE [ w EXCEPT !.app.statusMessage = "ERROR_GIS_NOT_READY",
                        !.app.gisInited = FALSE,
                        !.app.isLoading = FALSE,
                        !.net.gisScript.state = "failed",
                        !.hist.faults = @ + 1 ]

GisScriptLoaded ==
  /\ NoEffects
  /\ net.gisScript.state = "loading"
  /\ eff.pc = "idle" /\ op.pc = "idle"
  /\ \E ok \in BOOLEAN : Commit(GisLoaded(World, ok))
  /\ UNCHANGED << remote, now >>

\* nothing is outstanding: no effect, chain, library load, revocation or
\* token request
Loading(script) == script = "loading"

Quiet ==
  /\ NoEffects
  /\ eff.pc = "idle" /\ op.pc = "idle"
  /\ ~Loading(net.gapiScript) /\ ~Loading(net.gisScript.state)
  /\ net.revokes = { }
  /\ ~net.tokenReq.pending

\* the user acts: every action of the user takes its time
UserActs ==
  /\ Quiet
  /\ now < MaxTime
  /\ now' = now + 1
  /\ UNCHANGED remote

\* the list and the form are rendered, with their buttons enabled, whatever is
\* loading (686-699): the user acts on them also while the load of the session
\* is in flight
UserActsOnRecords ==
  /\ NoEffects
  /\ op.pc = "idle"
  /\ ~Loading(net.gapiScript) /\ ~Loading(net.gisScript.state)
  /\ net.revokes = { }
  /\ ~net.tokenReq.pending
  /\ now < MaxTime
  /\ now' = now + 1
  /\ UNCHANGED remote


\* the function that started the chain returns
\*   findOrCreateUserSpreadsheet: nothing follows the load (190, 201)
\*   handleSave (549), handleDelete (601): the statements after try / catch
ChainReturn(w, c) ==
  LET w1 == CASE w[c].kind = "save" ->
                   [ w EXCEPT !.app.currentView = "List",
                              !.app.editingMeasurement = NoMeasurement,
                              !.app.isLoading = FALSE ]
              [] w[c].kind = "delete" -> [ w EXCEPT !.app.isLoading = FALSE ]
              [] OTHER -> w
  IN  [ w1 EXCEPT ![c] = IdleChain ]

\* src/App.tsx 448-456: loadMeasurementsFromSheet up to the read it awaits
loadMeasurementsFromSheet(w, c) ==
  IF w[c].token = Null \/ w[c].sid = Null
    THEN ChainReturn([ w EXCEPT !.app.isLoading = FALSE ], c)
    ELSE Issue([ w EXCEPT !.app.isLoading = TRUE,
                          !.app.statusMessage = "SYNCING_DATA" ], c, "read")

\* setupSheetHeaders has returned to its caller
\*   "load": the load is run again (201, 463, 483), and its caller returns
\*   "tail": the empty-table branch goes on (470, 488)
AfterSetup(w, c) ==
  IF w[c].after = "tail"
    THEN ChainReturn([ w EXCEPT !.app.statusMessage = "NO_RECORDS_GOOGLE_SHEETS",
                                !.app.isLoading = FALSE ], c)
    ELSE loadMeasurementsFromSheet(w, c)

\* src/App.tsx 419-424: setupSheetHeaders up to the request it awaits
setupSheetHeaders(w, c, after) ==
  LET w1 == [ w EXCEPT ![c].after = after,
                       !.hist[c].nfSetups =
                          IF w.hist[c].nfFailed # "none" THEN Inc(@) ELSE @ ]
  IN  IF w[c].token = Null \/ w[c].sid = Null
        THEN AfterSetup(w1, c)
        ELSE Issue(w1, c, "hdr_get")

\* src/App.tsx 435-444: the catch block of setupSheetHeaders
SetupCatch(w, c, e) ==
  AfterSetup(
    IF IsAuthError(e)
      THEN handleSignoutClick(w, TRUE, w[c].token, TRUE)
      ELSE [ w EXCEPT !.app.statusMessage = "ERROR_SETTING_UP_HEADERS" ],
    c)


\* a decoding that discards the rows without id first and numbers the rest
DecodeRowsKept(values) ==
  LET kept == SelectSeq([ i \in 1..(Len(values) - 1) |-> values[i + 1] ],
                        LAMBDA row : Len(row) > 0 /\ row[1] # "")
  IN  [ i \in 1..Len(kept) |-> rowToMeasurement(kept[i], i + 1) ]

\* values.slice(1).map((row, index) => rowToMeasurement(row, index + 2))
\*   .filter(m => m.id)  (465)
DecodeRows(values) ==
  SelectSeq([ i \in 1..(Len(values) - 1) |-> rowToMeasurement(values[i + 1], i + 1) ],
            LAMBDA m : m["id"] # "")

\* LoadValues that keeps the collection and puts the saved record in front
LoadValuesKeepsLocal(w, c, values) ==
  IF Len(values) > 0
    THEN IF values[1] # SHEET_FIELD_ORDER
           THEN setupSheetHeaders(
                  [ w EXCEPT !.app.statusMessage = "ERROR_SHEET_HEADER_MISMATCH_ATTEMPT_FIX",
                             !.hist[c].repairs = Inc(@) ],
                  c, "load")
           ELSE ChainReturn(
                  [ w EXCEPT !.app.measurements =
                                IF w[c].kind = "save" THEN << w[c].m >> \o @
                                                      ELSE DecodeRows(values),
                             !.app.statusMessage = "SYNCED_WITH_GOOGLE_SHEETS",
                             !.app.isLoading = FALSE ],
                  c)
    ELSE setupSheetHeaders([ w EXCEPT !.app.measurements = << >> ], c, "tail")

\* src/App.tsx 457-471: the read returned values
LoadValues(w, c, values) ==
  IF Len(values) > 0
    THEN IF values[1] # SHEET_FIELD_ORDER
           THEN setupSheetHeaders(
                  [ w EXCEPT !.app.statusMessage = "ERROR_SHEET_HEADER_MISMATCH_ATTEMPT_FIX",
                             !.hist[c].repairs = Inc(@) ],
                  c, "load")
           ELSE LET loadedMeasurements == DecodeRows(values)
                IN  ChainReturn(
                      [ w EXCEPT !.app.measurements = loadedMeasurements,
                                 !.app.statusMessage =
                                    IF Len(loadedMeasurements) > 0
                                      THEN "SYNCED_WITH_GOOGLE_SHEETS"
                                      ELSE "NO_RECORDS_GOOGLE_SHEETS",
                                 !.app.isLoading = FALSE ],
                      c)
    ELSE setupSheetHeaders([ w EXCEPT !.app.measurements = << >> ], c, "tail")

\* LoadCatch with a branch of its own for permission-denied, which asks for a
\* new token
LoadCatchAsksToken(w, c, e) ==
  IF e.code = 403 /\ e.status = "PERMISSION_DENIED"
    THEN ChainReturn(
           [ handleAuthClick([ w EXCEPT !.app.statusMessage = "ERROR_PERMISSION_DENIED_SHEETS" ],
                             w.app.tokenClient)
               EXCEPT !.app.isLoading = FALSE ], c)
  ELSE IF IsLoadAuthError(e)
    THEN ChainReturn(
           [ handleSignoutClick(w, TRUE, w[c].token, TRUE) EXCEPT !.app.isLoading = FALSE ], c)
  ELSE IF IsSheetNotFound(e)
    THEN setupSheetHeaders([ w EXCEPT !.app.statusMessage = "ERROR_SYNCING_DATA_CREATING" ],
                           c, "load")
  ELSE ChainReturn([ w EXCEPT !.app.statusMessage = "ERROR_SYNCING_DATA",
                              !.app.isLoading = FALSE ], c)

\* src/App.tsx 472-488: the catch block of loadMeasurementsFromSheet
LoadCatch(w, c, e) ==
  IF IsLoadAuthError(e)
    THEN ChainReturn(
           [ handleSignoutClick(w, TRUE, w[c].token, TRUE) EXCEPT !.app.isLoading = FALSE ], c)
  ELSE IF IsSheetNotFound(e)
    THEN setupSheetHeaders([ w EXCEPT !.app.statusMessage = "ERROR_SYNCING_DATA_CREATING" ],
                           c, "load")
  ELSE ChainReturn([ w EXCEPT !.app.statusMessage = "ERROR_SYNCING_DATA",
                              !.app.isLoading = FALSE ], c)

\* the backend answers a request only for a spreadsheet and a tab that exist
CanAnswer(e, needsTab) ==
  e = Ok => (remote.doc /\ (needsTab => remote.tab))

\* spreadsheets.values.get settles (454)
ReadResponse(c) ==
  /\ NoEffects
  /\ World[c].pc = "read"
  /\ \E e \in Errors \cup { Ok } :
       /\ CanAnswer(e, TRUE)
       /\ Commit(IF e = Ok THEN LoadValues(Succeeded(World, c), c, ReadValues(remote.rows))
                           ELSE LoadCatch(Failed(World, c, e), c, e))
  /\ UNCHANGED << remote, now >>

\* spreadsheets.get of setupSheetHeaders settles (422-430)
HeaderGetResponse(c) ==
  /\ NoEffects
  /\ World[c].pc = "hdr_get"
  /\ \E e \in Errors \cup { Ok } :
       /\ CanAnswer(e, FALSE)
       /\ Commit(IF e = Ok
                   THEN Issue(Succeeded(World, c), c,
                              IF remote.tab THEN "hdr_put" ELSE "hdr_add")
                   ELSE SetupCatch(Failed(World, c, e), c, e))
  /\ UNCHANGED << remote, now >>

\* batchUpdate addSheet settles (427-430)
HeaderAddResponse(c) ==
  /\ NoEffects
  /\ World[c].pc = "hdr_add"
  /\ \E e \in Errors \cup { Ok } :
       /\ CanAnswer(e, FALSE)
       /\ Commit(IF e = Ok THEN Issue(Succeeded(World, c), c, "hdr_put")
                           ELSE SetupCatch(Failed(World, c, e), c, e))
       /\ remote' = IF e = Ok THEN [ remote EXCEPT !.tab = TRUE ] ELSE remote
  /\ UNCHANGED now

\* values.update of SHEET_NAME!A1 with the header settles (431-434)
HeaderPutResponse(c) ==
  /\ NoEffects
  /\ World[c].pc = "hdr_put"
  /\ \E e \in Errors \cup { Ok } :
       /\ CanAnswer(e, TRUE)
       /\ Commit(IF e = Ok THEN AfterSetup(Succeeded(World, c), c)
                           ELSE SetupCatch(Failed(World, c, e), c, e))
       /\ remote' = IF e = Ok
                      THEN [ remote EXCEPT !.rows = UpdateRow(@, 1, SHEET_FIELD_ORDER) ]
                      ELSE remote
  /\ UNCHANGED now


(***************************************************************************)
(* findOrCreateUserSpreadsheet after its awaits (183-213).                 *)
(***************************************************************************)
\* src/App.tsx 203-213: the catch block
FindCatch(w, e) ==
  LET w1 == IF IsAuthError(e)
              THEN handleSignoutClick(w, TRUE, w.eff.token, TRUE)
              ELSE [ w EXCEPT !.app.statusMessage = "ERROR_DRIVE_OPERATION",
                              !.app.isSignedIn = FALSE,
                              !.app.accessToken = Null ]
  IN  [ w1 EXCEPT !.eff = IdleChain ]

\* drive.files.list settles (183-192)
DriveListResponse ==
  /\ NoEffects
  /\ eff.pc = "drive_list"
  /\ \E e \in Errors \cup { Ok } :
       Commit(IF e # Ok THEN FindCatch(Failed(World, "eff", e), e)
              ELSE IF remote.doc
                THEN loadMeasurementsFromSheet(
                       [ Succeeded(World, "eff")
                           EXCEPT !.app.userSpreadsheetId = SpreadsheetId,
                                      !.eff.sid = SpreadsheetId ], "eff")
                ELSE Issue([ Succeeded(World, "eff")
                               EXCEPT !.app.statusMessage = "SPREADSHEET_NOT_FOUND_CREATING" ],
                           "eff", "drive_create"))
  /\ UNCHANGED << remote, now >>

\* a creation after which the sheet is read without setting up its header
DriveCreateThenRead ==
  /\ NoEffects
  /\ eff.pc = "drive_create"
  /\ \E e \in Errors \cup { Ok } :
       /\ Commit(IF e # Ok THEN FindCatch(Failed(World, "eff", e), e)
                 ELSE loadMeasurementsFromSheet(
                        [ Succeeded(World, "eff")
                            EXCEPT !.app.userSpreadsheetId = SpreadsheetId,
                                       !.app.statusMessage =
                                          "SPREADSHEET_CREATED_SETUP_HEADERS",
                                       !.eff.sid = SpreadsheetId ],
                        "eff"))
       /\ remote' = IF e = Ok THEN [ doc |-> TRUE, tab |-> FALSE, rows |-> << >> ]
                              ELSE remote
  /\ UNCHANGED now

\* drive.files.create settles (193-201); a new spreadsheet has no SHEET_NAME tab
DriveCreateResponse ==
  /\ NoEffects
  /\ eff.pc = "drive_create"
  /\ \E e \in Errors \cup { Ok } :
       /\ Commit(IF e # Ok THEN FindCatch(Failed(World, "eff", e), e)
                 ELSE setupSheetHeaders(
                        [ Succeeded(World, "eff")
                            EXCEPT !.app.userSpreadsheetId = SpreadsheetId,
                                       !.app.statusMessage =
                                          "SPREADSHEET_CREATED_SETUP_HEADERS",
                                       !.eff.sid = SpreadsheetId ],
                        "eff", "load"))
       /\ remote' = IF e = Ok THEN [ doc |-> TRUE, tab |-> FALSE, rows |-> << >> ]
                              ELSE remote
  /\ UNCHANGED now

(***************************************************************************)
(* handleSave (492-550).                                                   *)
(***************************************************************************)
\* a stable sort by measurementDate, latest first (509)
RECURSIVE InsertByDate(_, _)
InsertByDate(sorted, m) ==
  IF sorted = << >> THEN << m >>
  ELSE IF DateTime(Head(sorted)["measurementDate"]) >= DateTime(m["measurementDate"])
    THEN << Head(sorted) >> \o InsertByDate(Tail(sorted), m)
  ELSE << m >> \o sorted

RECURSIVE SortByDate(_)
SortByDate(ms) ==
  IF ms = << >> THEN << >>
  ELSE InsertByDate(SortByDate(SubSeq(ms, 1, Len(ms) - 1)), ms[Len(ms)])

\* the updater of setMeasurements in the local branch (504-512)
LocalUpsert(prev, finalMeasurement) ==
  LET exists == \E i \in DOMAIN prev : prev[i]["id"] = finalMeasurement["id"]
      updatedMeasurements ==
        IF exists
          THEN [ i \in DOMAIN prev |->
                   IF prev[i]["id"] = finalMeasurement["id"] THEN finalMeasurement
                                                               ELSE prev[i] ]
          ELSE << finalMeasurement >> \o prev
  IN  SortByDate(updatedMeasurements)

\* what the closure of a handler captured of the rendered state
Closure(r) ==
  [ isSignedIn |-> r.isSignedIn, accessToken |-> r.accessToken,
    gapiInited |-> r.gapiInited, userSpreadsheetId |-> r.userSpreadsheetId,
    tokenClient |-> r.tokenClient, measurements |-> r.measurements ]

\* lines 494-496
Normalize(measurementToSave) ==
  LET withDate == IF measurementToSave["measurementDate"] = ""
                    THEN [ measurementToSave EXCEPT !["measurementDate"] = Today ]
                    ELSE measurementToSave
  IN  IF withDate["id"] = "" THEN [ withDate EXCEPT !["id"] = TimestampId ]
                             ELSE withDate

\* a handleSave that appends a row also for a record that has a rowIndex
handleSaveAlwaysAppends(w, measurementToSave, r, writeOk) ==
  LET finalMeasurement == Normalize(measurementToSave)
      w1 == [ w EXCEPT !.app.isLoading = TRUE ]
  IN  IF ~r.isSignedIn \/ r.accessToken = Null \/ ~r.gapiInited
           \/ r.userSpreadsheetId = Null
        THEN IF ~r.isSignedIn /\ r.tokenClient.ready
               THEN handleAuthClick(
                      [ w1 EXCEPT !.app.actionRequiresAuth =
                                     [ kind |-> "save", m |-> finalMeasurement,
                                       id |-> finalMeasurement["id"], cl |-> r ],
                                  !.fresh = TRUE ],
                      r.tokenClient)
               ELSE LET updatedMeasurements ==
                          LocalUpsert(w1.app.measurements, finalMeasurement)
                        w2 == [ w1 EXCEPT !.app.measurements = updatedMeasurements,
                                          !.app.currentView = "List",
                                          !.app.editingMeasurement = NoMeasurement,
                                          !.app.statusMessage = "USING_LOCAL_STORAGE_SAVED",
                                          !.app.isLoading = FALSE ]
                    IN  saveMeasurementsToLocalStorage(w2, updatedMeasurements, writeOk)
        ELSE Issue(
               [ w1 EXCEPT !.app.statusMessage = "SYNCING_DATA_SAVING",
                           !.op = [ IdleChain EXCEPT !.kind = "save",
                                                     !.token = r.accessToken,
                                                     !.sid = r.userSpreadsheetId,
                                                     !.m = finalMeasurement ],
                           !.hist.op = [ NoHistory EXCEPT !.kind = "save" ],
                           !.hist.overlap = @ \/ w.op.pc # "idle" ],
               "op",
               "save_append")

\* handleSave up to its first await; r is the closure, writeOk whether
\* localStorage takes the write
handleSave(w, measurementToSave, r, writeOk) ==
  LET finalMeasurement == Normalize(measurementToSave)
      w1 == [ w EXCEPT !.app.isLoading = TRUE ]
  IN  IF ~r.isSignedIn \/ r.accessToken = Null \/ ~r.gapiInited
           \/ r.userSpreadsheetId = Null
        THEN IF ~r.isSignedIn /\ r.tokenClient.ready
               THEN handleAuthClick(
                      [ w1 EXCEPT !.app.actionRequiresAuth =
                                     [ kind |-> "save", m |-> finalMeasurement,
                                       id |-> finalMeasurement["id"], cl |-> r ],
                                  !.fresh = TRUE ],
                      r.tokenClient)
               ELSE LET updatedMeasurements ==
                          LocalUpsert(w1.app.measurements, finalMeasurement)
                        w2 == [ w1 EXCEPT !.app.measurements = updatedMeasurements,
                                          !.app.currentView = "List",
                                          !.app.editingMeasurement = NoMeasurement,
                                          !.app.statusMessage = "USING_LOCAL_STORAGE_SAVED",
                                          !.app.isLoading = FALSE ]
                    IN  saveMeasurementsToLocalStorage(w2, updatedMeasurements, writeOk)
        ELSE Issue(
               [ w1 EXCEPT !.app.statusMessage = "SYNCING_DATA_SAVING",
                           !.op = [ IdleChain EXCEPT !.kind = "save",
                                                     !.token = r.accessToken,
                                                     !.sid = r.userSpreadsheetId,
                                                     !.m = finalMeasurement ],
                           !.hist.op = [ NoHistory EXCEPT !.kind = "save" ],
                           !.hist.overlap = @ \/ w.op.pc # "idle" ],
               "op",
               IF HasRowIndex(finalMeasurement) /\ finalMeasurement["id"] # ""
                 THEN "save_update" ELSE "save_append")

\* src/App.tsx 539-548: the catch block of handleSave
SaveCatch(w, e) ==
  ChainReturn(
    IF IsAuthError(e)
      THEN handleSignoutClick(w, TRUE, w.op.token, TRUE)
      ELSE [ w EXCEPT !.app.statusMessage = "ERROR_SYNCING_DATA" ],
    "op")

\* values.update or values.append of the record's row settles (521-538)
SaveWriteResponse ==
  /\ NoEffects
  /\ op.pc \in { "save_update", "save_append" }
  /\ \E e \in Errors \cup { Ok } :
       /\ CanAnswer(e, TRUE)
       /\ Commit(IF e = Ok
                   THEN loadMeasurementsFromSheet(
                          [ Succeeded(World, "op")
                              EXCEPT !.app.statusMessage = "SYNCED_WITH_GOOGLE_SHEETS_SAVED",
                                         !.hist.op.wrote = TRUE ], "op")
                   ELSE SaveCatch(Failed(World, "op", e), e))
       /\ remote' =
            IF e # Ok THEN remote
            ELSE IF op.pc = "save_update"
              THEN [ remote EXCEPT !.rows = UpdateRow(@, op.m["rowIndex"], measurementToRow(op.m)) ]
              ELSE [ remote EXCEPT !.rows = AppendRow(@, measurementToRow(op.m)) ]
  /\ UNCHANGED now


(***************************************************************************)
(* handleDelete (552-602).                                                 *)
(***************************************************************************)
\* new Error(`Could not find sheet ID ...`), thrown at 581
ENoSheetId == [ code |-> 0, status |-> "", message |-> "could not find sheet id" ]

Find(ms, id) ==
  IF \E i \in DOMAIN ms : ms[i]["id"] = id
    THEN ms[CHOOSE i \in DOMAIN ms : ms[i]["id"] = id /\ \A j \in 1..(i - 1) : ms[j]["id"] # id]
    ELSE NoMeasurement

\* handleDelete that takes the remote path whether or not the record has a
\* rowIndex
handleDeleteIgnoresRowIndex(w, id, r, confirmed, writeOk) ==
  LET measurementToDelete == Find(r.measurements, id)
      w1 == [ w EXCEPT !.app.isLoading = TRUE ]
  IN  IF measurementToDelete = NoMeasurement \/ ~confirmed THEN w
      ELSE IF ~r.isSignedIn \/ r.accessToken = Null \/ ~r.gapiInited
                \/ r.userSpreadsheetId = Null
        THEN [ w1 EXCEPT !.app.isLoading = FALSE ]
      ELSE Issue(
             [ w1 EXCEPT !.app.statusMessage = "SYNCING_DATA_DELETING",
                         !.op = [ IdleChain EXCEPT !.kind = "delete",
                                                   !.token = r.accessToken,
                                                   !.sid = r.userSpreadsheetId,
                                                   !.m = measurementToDelete ],
                         !.hist.op = [ NoHistory EXCEPT !.kind = "delete" ] ],
             "op", "del_get")

\* handleDelete whose local branch takes out the first record of the id only
handleDeleteFirstOnly(w, id, r, confirmed, writeOk) ==
  LET measurementToDelete == Find(r.measurements, id)
      w1 == [ w EXCEPT !.app.isLoading = TRUE ]
      first == CHOOSE i \in DOMAIN r.measurements :
                 /\ r.measurements[i]["id"] = id
                 /\ \A j \in 1..(i - 1) : r.measurements[j]["id"] # id
  IN  IF measurementToDelete = NoMeasurement \/ ~confirmed THEN w
      ELSE LET updatedLocalMeasurements ==
                 [ k \in 1..(Len(r.measurements) - 1) |->
                     IF k < first THEN r.measurements[k] ELSE r.measurements[k + 1] ]
               w2 == saveMeasurementsToLocalStorage(w1, updatedLocalMeasurements, writeOk)
           IN  [ w2 EXCEPT !.app.measurements = updatedLocalMeasurements,
                           !.app.statusMessage =
                              IF updatedLocalMeasurements = << >>
                                THEN "NO_RECORDS"
                                ELSE "USING_LOCAL_STORAGE_DELETED",
                           !.app.isLoading = FALSE ]

\* handleDelete up to its first await; r is the closure, confirmed the answer
\* to window.confirm
handleDelete(w, id, r, confirmed, writeOk) ==
  LET measurementToDelete == Find(r.measurements, id)
      w1 == [ w EXCEPT !.app.isLoading = TRUE ]
  IN  IF measurementToDelete = NoMeasurement \/ ~confirmed THEN w
      ELSE IF ~r.isSignedIn \/ r.accessToken = Null \/ ~r.gapiInited
                \/ r.userSpreadsheetId = Null \/ ~HasRowIndex(measurementToDelete)
        THEN IF ~r.isSignedIn /\ r.tokenClient.ready
               THEN handleAuthClick(
                      [ w1 EXCEPT !.app.actionRequiresAuth =
                                     [ kind |-> "delete", m |-> measurementToDelete,
                                       id |-> id, cl |-> r ],
                                  !.fresh = TRUE ],
                      r.tokenClient)
               ELSE LET updatedLocalMeasurements ==
                          SelectSeq(r.measurements, LAMBDA m : m["id"] # id)
                        w2 == saveMeasurementsToLocalStorage(
                                w1, updatedLocalMeasurements, writeOk)
                    IN  [ w2 EXCEPT !.app.measurements = updatedLocalMeasurements,
                                    !.app.statusMessage =
                                       IF updatedLocalMeasurements = << >>
                                         THEN "NO_RECORDS"
                                         ELSE "USING_LOCAL_STORAGE_DELETED",
                                    !.app.isLoading = FALSE ]
      ELSE Issue(
             [ w1 EXCEPT !.app.statusMessage = "SYNCING_DATA_DELETING",
                         !.op = [ IdleChain EXCEPT !.kind = "delete",
                                                   !.token = r.accessToken,
                                                   !.sid = r.userSpreadsheetId,
                                                   !.m = measurementToDelete ],
                         !.hist.op = [ NoHistory EXCEPT !.kind = "delete" ],
                         !.hist.overlap = @ \/ w.op.pc # "idle" ],
             "op", "del_get")

\* src/App.tsx 591-601: the catch block of handleDelete
DeleteCatch(w, e) ==
  ChainReturn(
    IF IsAuthError(e)
      THEN handleSignoutClick(w, TRUE, w.op.token, TRUE)
      ELSE [ w EXCEPT !.app.statusMessage = "ERROR_SYNCING_DATA" ],
    "op")

\* getSheetIdByTitle settles (552-561, 580-582): an error of the lookup and a
\* missing tab both give undefined, and handleDelete throws
SheetIdResponse ==
  /\ NoEffects
  /\ op.pc = "del_get"
  /\ \E e \in Errors \cup { Ok } :
       /\ CanAnswer(e, FALSE)
       /\ Commit(IF e = Ok /\ remote.tab
                   THEN Issue(Succeeded(World, "op"), "op", "del_row")
                   ELSE DeleteCatch(IF e = Ok THEN Succeeded(World, "op")
                                              ELSE Failed(World, "op", e),
                                    ENoSheetId))
  /\ UNCHANGED << remote, now >>

\* batchUpdate deleteDimension settles (582-590)
DeleteRowResponse ==
  /\ NoEffects
  /\ op.pc = "del_row"
  /\ \E e \in Errors \cup { Ok } :
       /\ CanAnswer(e, TRUE)
       /\ Commit(IF e = Ok
                   THEN loadMeasurementsFromSheet(
                          [ Succeeded(World, "op")
                              EXCEPT !.app.statusMessage = "SYNCED_WITH_GOOGLE_SHEETS_DELETED",
                                         !.hist.op.wrote = TRUE ], "op")
                   ELSE DeleteCatch(Failed(World, "op", e), e))
       /\ remote' = IF e = Ok
                      THEN [ remote EXCEPT !.rows = DeleteRow(@, op.m["rowIndex"]) ]
                      ELSE remote
  /\ UNCHANGED now

(***************************************************************************)
(* The session: token responses and revocations.                           *)
(***************************************************************************)
\* the stored continuation is called: the handler of the render that stored it
RunPending(w, action, confirmed, writeOk) ==
  CASE action.kind = "save" -> handleSave(w, action.m, action.cl, writeOk)
    [] action.kind = "delete" -> handleDelete(w, action.id, action.cl, confirmed, writeOk)
    [] OTHER -> w

\* tokenResponse.expires_in || 3600 (222), in units of the clock
ExpiresIn == 1

\* an onTokenResponse that keeps the expiry of the session stored before
onTokenResponseKeepsExpiry(w, access_token, cAra, cSignedIn, confirmed, writeOk) ==
  IF access_token # Null
    THEN LET w1 == [ w EXCEPT !.app.accessToken = access_token,
                              !.app.isSignedIn = TRUE,
                              !.store.token = access_token,
                              !.store.signedIn = "true",
                              !.hist.ran = IF cAra.kind # "none" THEN 1 ELSE 0 ]
         IN  IF cAra.kind # "none"
               THEN [ RunPending(w1, cAra, confirmed, writeOk)
                        EXCEPT !.app.actionRequiresAuth = NoAction, !.fresh = FALSE ]
               ELSE w1
    ELSE handleSignoutLogic([ w EXCEPT !.app.statusMessage = "ERROR_AUTHENTICATING",
                                       !.hist.faults = @ + 1,
                                       !.hist.ran = 0 ],
                            TRUE, cSignedIn)

\* src/App.tsx 217-242; cAra and cSignedIn are actionRequiresAuth and isSignedIn
\* as the closure of the token client's callback captured them
onTokenResponse(w, access_token, cAra, cSignedIn, confirmed, writeOk) ==
  IF access_token # Null
    THEN LET w1 == [ w EXCEPT !.app.accessToken = access_token,
                              !.app.isSignedIn = TRUE,
                              !.store.token = access_token,
                              !.store.expiry = now + ExpiresIn,
                              !.store.signedIn = "true",
                              !.hist.ran = IF cAra.kind # "none" THEN 1 ELSE 0 ]
         IN  IF cAra.kind # "none"
               THEN [ RunPending(w1, cAra, confirmed, writeOk)
                        EXCEPT !.app.actionRequiresAuth = NoAction, !.fresh = FALSE ]
               ELSE w1
    ELSE handleSignoutLogic([ w EXCEPT !.app.statusMessage = "ERROR_AUTHENTICATING",
                                       !.hist.faults = @ + 1,
                                       !.hist.ran = 0 ],
                            TRUE, cSignedIn)


\* the token request ends with a response (the callback of the token client)
TokenResponse ==
  /\ NoEffects
  /\ net.tokenReq.pending
  /\ eff.pc = "idle" /\ op.pc = "idle"
  /\ \E access_token \in { FreshToken, Null }, confirmed, writeOk \in BOOLEAN :
       Commit(onTokenResponse([ World EXCEPT !.net.tokenReq = NoRequest ],
                              access_token, net.tokenReq.ara, net.tokenReq.signedIn,
                              confirmed, writeOk))
  /\ UNCHANGED << remote, now >>

\* the user closes the consent window: the callback is never called
TokenRequestDropped ==
  /\ NoEffects
  /\ net.tokenReq.pending
  /\ Commit([ World EXCEPT !.net.tokenReq = NoRequest ])
  /\ UNCHANGED << remote, now >>

\* the callback of google.accounts.oauth2.revoke (162-165)
RevokeCallback ==
  /\ NoEffects
  /\ \E rv \in net.revokes :
       Commit(handleSignoutLogic([ World EXCEPT !.net.revokes = @ \ { rv } ],
                                 rv.auto, rv.signedIn))
  /\ UNCHANGED << remote, now >>

(***************************************************************************)
(* The user.  The user signs in and out when no chain, effect, library     *)
(* load or revocation is outstanding, and works on the records also while  *)
(* the load of the session is in flight.                                   *)
(***************************************************************************)
\* src/App.tsx 605-613
handleAddNew ==
  /\ UserActsOnRecords
  /\ app.currentView = "List"
  /\ Commit([ World EXCEPT !.app.editingMeasurement = initialMeasurementState,
                           !.app.currentView = "Form" ])


handleEdit ==
  /\ UserActsOnRecords
  /\ app.currentView = "List"
  /\ \E i \in DOMAIN app.measurements :
       Commit([ World EXCEPT !.app.editingMeasurement =
                                Spread(initialMeasurementState, app.measurements[i]),
                             !.app.currentView = "Form" ])


handleCancelForm ==
  /\ UserActsOnRecords
  /\ app.currentView = "Form"
  /\ Commit([ World EXCEPT !.app.currentView = "List",
                           !.app.editingMeasurement = NoMeasurement ])


Names == { "B" }

\* MeasurementForm.handleSubmit (src/components/MeasurementCard.tsx 122-134)
\* on the form data: the editing target with the name the user typed
handleSubmit(formData) ==
  LET finalFormData == IF formData["measurementDate"] = ""
                         THEN [ formData EXCEPT !["measurementDate"] = Today ]
                         ELSE formData
  IN  [ finalFormData EXCEPT !["id"] = IF @ = "" THEN TimestampId ELSE @ ]

\* the user submits the form: handleSubmit calls onSave = handleSave
SubmitForm ==
  /\ UserActsOnRecords
  /\ app.currentView = "Form"
  /\ \E name \in Names, writeOk \in BOOLEAN :
       Commit(handleSave(World,
                         handleSubmit([ app.editingMeasurement EXCEPT !["name"] = name ]),
                         Closure(app), writeOk))


\* the user presses the delete button of a card and confirms
ClickDelete ==
  /\ UserActsOnRecords
  /\ app.currentView = "List"
  /\ \E i \in DOMAIN app.measurements, writeOk \in BOOLEAN :
       Commit(handleDelete(World, app.measurements[i]["id"], Closure(app), TRUE, writeOk))


\* the sign-in button (633-640)
ClickSignIn ==
  /\ UserActs
  /\ app.gisInited /\ app.gapiInited /\ ~app.isSignedIn
  /\ ~app.isLoading /\ app.tokenClient.ready
  /\ Commit(handleAuthClick(World, app.tokenClient))


\* the sign-out button (642-650)
ClickSignOut ==
  /\ UserActs
  /\ app.isSignedIn
  /\ ~(app.isLoading /\ app.statusMessage \notin
          { "USING_LOCAL_STORAGE", "SIGNED_OUT_USING_LOCAL" })
  /\ Commit(handleSignoutClick(World, FALSE, app.accessToken, app.isSignedIn))


(***************************************************************************)
(* The initial states: the component before its first effects, over what   *)
(* the browser storage and the user's Drive may hold.                      *)
(***************************************************************************)
RecA == Rec("a", "A", "2024-01-02")
RecL == Rec("l", "L", "2024-01-03")

InitialBlobs ==
  { NoBlob, [ state |-> "corrupt" ], [ state |-> "ok", items |-> << RecL >> ] }

InitialSessions ==
  { [ token |-> Null, expiry |-> NoExpiry, signedIn |-> Null ],
    [ token |-> StoredToken, expiry |-> 1, signedIn |-> "true" ],
    [ token |-> StoredToken, expiry |-> 0, signedIn |-> "true" ] }

InitialRemotes ==
  { [ doc |-> FALSE, tab |-> FALSE, rows |-> << >> ],
    [ doc |-> TRUE, tab |-> TRUE, rows |-> << SHEET_FIELD_ORDER, measurementToRow(RecA) >> ],
    [ doc |-> TRUE, tab |-> TRUE, rows |-> << << "id", "name" >>, measurementToRow(RecA) >> ] }

Init ==
  /\ app = [ measurements |-> << >>, currentView |-> "List",
             editingMeasurement |-> NoMeasurement,
             gapiInited |-> FALSE, gisInited |-> FALSE, tokenClient |-> NoClient,
             accessToken |-> Null, isSignedIn |-> FALSE, userSpreadsheetId |-> Null,
             isLoading |-> TRUE, statusMessage |-> "LOADING_APP_DATA",
             actionRequiresAuth |-> NoAction ]
  /\ \E blob \in InitialBlobs, session \in InitialSessions :
       store = [ blob |-> blob, token |-> session.token, expiry |-> session.expiry,
                 signedIn |-> session.signedIn ]
  /\ net = [ gapiScript |-> "none",
             gisScript |-> [ state |-> "none", restored |-> FALSE, gapiInited |-> FALSE,
                             ara |-> NoAction, signedIn |-> FALSE ],
             google |-> FALSE, tokenReq |-> NoRequest, revokes |-> { } ]
  /\ remote \in InitialRemotes
  /\ eff = IdleChain
  /\ op = IdleChain
  /\ pend = [ startup |-> TRUE, session |-> TRUE ]
  /\ now = 0
  /\ hist = [ eff |-> NoHistory, op |-> NoHistory, overlap |-> FALSE, faults |-> 0,
              lost |-> FALSE, ran |-> 0 ]

Next ==
  \/ RunEffects
  \/ GapiLoaded
  \/ GisScriptLoaded
  \/ DriveListResponse
  \/ DriveCreateResponse
  \/ \E c \in Chains : ReadResponse(c)
  \/ \E c \in Chains : HeaderGetResponse(c)
  \/ \E c \in Chains : HeaderAddResponse(c)
  \/ \E c \in Chains : HeaderPutResponse(c)
  \/ SaveWriteResponse
  \/ SheetIdResponse
  \/ DeleteRowResponse
  \/ TokenResponse
  \/ TokenRequestDropped
  \/ RevokeCallback
  \/ handleAddNew
  \/ handleEdit
  \/ handleCancelForm
  \/ SubmitForm
  \/ ClickDelete
  \/ ClickSignIn
  \/ ClickSignOut

Spec == Init /\ [][Next]_vars

NoOverlap == ~hist.overlap


(***************************************************************************)
(* Properties.                                                             *)
(***************************************************************************)
\* the session is cleared: in memory and in localStorage
Cleared ==
  /\ app.accessToken = Null /\ ~app.isSignedIn /\ app.userSpreadsheetId = Null
  /\ store.token = Null /\ store.expiry = NoExpiry /\ store.signedIn = Null

\* the chain c
ChainOf(c) == IF c = "eff" THEN eff ELSE op

\* the collection is what the local store load returns
FromLocalStore == app.measurements = ParseStored(store.blob)

\* the last request of chain c was the read of a load, and ended with error e
LoadFailedWith(c, e) == hist[c].failedAt = "read" /\ hist[c].lastError = e

\* C1: the step in which a remote save whose update / append succeeded
\* completes, its post-save read having returned the rows, leaves the
\* collection equal to the records decoded from the rows of the remote table:
\* every record carries the rowIndex of its row, none is the record as the
\* form handed it over.
C1_SaveEndsWithRemoteRows ==
  [][ (op.pc = "read" /\ op'.pc = "idle" /\ hist.op.kind = "save" /\ hist.op.wrote
         /\ hist'.op.lastError = Ok)
        => /\ app'.measurements = DecodeRows(ReadValues(remote'.rows))
           /\ \A i \in DOMAIN app'.measurements : HasRowIndex(app'.measurements[i]) ]_vars

C1_Witness ==
  /\ op.pc = "idle" /\ hist.op.kind = "save" /\ hist.op.wrote
  /\ hist.op.lastError = Ok /\ ~hist.op.failed
  /\ app.measurements = DecodeRows(ReadValues(remote.rows))
  /\ \E i \in DOMAIN app.measurements : app.measurements[i]["name"] = "B"

C3_LocalWhenUnusable ==
  (Quiet /\ now = 0
     /\ (~app.isSignedIn \/ app.accessToken = Null \/ ~app.gapiInited))
    => FromLocalStore

\* C4: once startup has settled after a failed initialisation of the remote
\* client library, the collection is what the local store load returns and
\* the loading flag is false.
C4_GapiFailureFallsBack ==
  (Quiet /\ now = 0 /\ net.gapiScript = "failed")
    => (FromLocalStore /\ ~app.isLoading)

\* C5: one chain repairs the header because of a mismatch at most once.
C5_OneHeaderRepair == \A c \in Chains : hist[c].repairs <= 1

\* C6: a chain that has ended, and one of whose read, update / append or row
\* deletion requests had failed with tab-not-found, has called
\* setupSheetHeaders after that failure and has then sent that request again;
\* an update / append or row deletion exactly once.
C6_NotFoundRetriedOnce ==
  \A c \in Chains :
    (World[c].pc = "idle" /\ hist[c].nfFailed # "none")
      => /\ hist[c].nfSetups >= 1
         /\ hist[c].nfRetries >= 1
         /\ hist[c].nfFailed # "read" => hist[c].nfRetries = 1

\* the forced sign-out a failure asks for has been started: the revocation of
\* the token is under way or, with no Google Identity library, the session
\* is cleared
ForcedSignoutStarted ==
  \/ [ auto |-> TRUE, signedIn |-> TRUE ] \in net.revokes
  \/ Cleared /\ FromLocalStore

\* the remote calls of an operation: document search and creation, header
\* setup, read, update / append, row deletion
OperationCalls ==
  { "drive_list", "drive_create", "hdr_get", "hdr_add", "hdr_put", "read",
    "save_update", "save_append", "del_row" }

\* C7: the step in which one of these calls of a chain fails with 401, 403 or
\* UNAUTHENTICATED starts the forced sign-out and ends the chain: no
\* further request is sent for that operation.
C7_AuthFailureEndsOperation ==
  [][ \A c \in Chains :
        (ChainOf(c).pc \in OperationCalls /\ hist'[c].failedAt = ChainOf(c).pc
           /\ IsAuthError(hist'[c].lastError))
          => (ForcedSignoutStarted /\ ChainOf(c).pc = "idle")' ]_vars

\* the step in which the read of a load of chain c fails with error e
ReadFails(c, e) ==
  ChainOf(c).pc = "read" /\ hist'[c].failedAt = "read" /\ hist'[c].lastError = e

C9_UnknownLoadErrorFallsBack ==
  [][ \A c \in Chains :
        ReadFails(c, E500) => (FromLocalStore /\ ~app.isSignedIn)' ]_vars

\* C10: the step in which the update / append of a remote save fails with a
\* non-authentication error leaves the form open on an editing target.
C10_FailedSaveKeepsRecord ==
  [][ (op.pc \in { "save_update", "save_append" } /\ hist'.op.failedAt = op.pc
         /\ ~IsAuthError(hist'.op.lastError))
        => (app'.currentView = "Form" /\ app'.editingMeasurement # NoMeasurement) ]_vars


\* the step in which a token request ends with an access token
TokenGranted ==
  /\ NoEffects /\ net.tokenReq.pending
  /\ ~app.isSignedIn /\ app'.isSignedIn

\* C11: a token response with an access token, arriving while a continuation is
\* stored, calls that continuation exactly once and leaves none stored.
C11_TokenRunsContinuation ==
  [][ (TokenGranted /\ app.actionRequiresAuth # NoAction)
        => (hist'.ran = 1 /\ app'.actionRequiresAuth = NoAction) ]_vars


\* the step in which a token request is abandoned: its callback is never called
TokenAbandoned == net.tokenReq.pending /\ ~net'.tokenReq.pending /\ app' = app

\* the loading flag is set although no effect, chain, library load, revocation
\* or token request is outstanding
StuckLoading == Quiet /\ app.isLoading

\* C12: as long as every external call returns, the controller never comes to
\* rest with the loading flag set: no step other than the abandonment of a token
\* request leads into a state with the flag set and nothing outstanding.
C12_NeverStuckLoading ==
  [][ (~StuckLoading /\ StuckLoading') => TokenAbandoned ]_vars


\* C13: two async chains with remote requests are never in flight together: a
\* save or delete does not send its request while the load of the session (or
\* another save or delete) still awaits a response.
C13_OneChainAtATime ==
  ~(eff.pc # "idle" /\ op.pc # "idle") /\ ~hist.overlap


\* the backend state is remote: what handleSave and handleDelete test (498, 568)
RemoteUsable ==
  /\ app.isSignedIn /\ app.accessToken # Null /\ app.gapiInited
  /\ app.userSpreadsheetId # Null

\* the step in which the user presses a delete button and confirms, while signed
\* in: a user's step on the list that is no sign-out
DeletePressed ==
  /\ now' # now
  /\ app.currentView = "List" /\ app'.currentView = "List"
  /\ app.isSignedIn /\ app'.isSignedIn /\ net'.revokes = net.revokes

\* C14: with the remote backend usable and no record of the collection holding
\* a rowIndex, a delete sends no remote request; the record leaves the
\* collection and the remaining records are written to the local store (unless
\* the storage refuses the write).
C14_DeleteWithoutRowIndexIsLocal ==
  [][ (DeletePressed /\ RemoteUsable
         /\ \A i \in DOMAIN app.measurements : ~HasRowIndex(app.measurements[i]))
        => /\ op' = op /\ eff' = eff
           /\ \E i \in DOMAIN app.measurements :
                app'.measurements =
                  SelectSeq(app.measurements,
                            LAMBDA m : m["id"] # app.measurements[i]["id"])
           /\ \/ store'.blob = [ state |-> "ok", items |-> app'.measurements ]
              \/ store' = store /\ hist'.faults = hist.faults + 1 ]_vars

C14_Witness ==
  /\ RemoteUsable /\ op.pc = "idle"
  /\ app.statusMessage = "NO_RECORDS"
  /\ app.measurements = << >>
  /\ store.blob = [ state |-> "ok", items |-> << >> ]


(***************************************************************************)
(* The conversions between records and rows on their own (src/App.tsx      *)
(* 23-37): a record of the local store is written as a row at some line of *)
(* the sheet with measurementToRow, and that row is read back with         *)
(* rowToMeasurement.                                                       *)
(***************************************************************************)
\* the last line of the sheet a row is written at
MaxRowIndex == 3

\* records with strings in every field of the schema
RoundTripRecords ==
  { [ f \in FieldNames |->
        CASE f = "id" -> id
          [] f = "name" -> name
          [] f = "measurementDate" -> date
          [] f = "unit" -> unit
          [] f = "notes" -> notes
          [] f = "fabricSampleDescription" -> fabric
          [] OTHER -> "" ] :
      id \in { "", "a" }, name \in { "", "A" }, date \in { "", "2024-01-02" },
      unit \in { "", "cm", "inch" }, notes \in { "", "n" }, fabric \in { "", "f" } }

RoundTripInit ==
  /\ app = [ measurements |-> << >>, currentView |-> "List",
             editingMeasurement |-> NoMeasurement,
             gapiInited |-> FALSE, gisInited |-> FALSE, tokenClient |-> NoClient,
             accessToken |-> Null, isSignedIn |-> FALSE, userSpreadsheetId |-> Null,
             isLoading |-> FALSE, statusMessage |-> "LOADING_APP_DATA",
             actionRequiresAuth |-> NoAction ]
  /\ \E r \in RoundTripRecords :
       store = [ blob |-> [ state |-> "ok", items |-> << r >> ], token |-> Null,
                 expiry |-> NoExpiry, signedIn |-> Null ]
  /\ net = [ gapiScript |-> "none",
             gisScript |-> [ state |-> "none", restored |-> FALSE, gapiInited |-> FALSE,
                             ara |-> NoAction, signedIn |-> FALSE ],
             google |-> FALSE, tokenReq |-> NoRequest, revokes |-> { } ]
  /\ remote = [ doc |-> TRUE, tab |-> TRUE, rows |-> << >> ]
  /\ eff = IdleChain
  /\ op = IdleChain
  /\ pend = [ startup |-> FALSE, session |-> FALSE ]
  /\ now = 0
  /\ hist = [ eff |-> NoHistory, op |-> NoHistory, overlap |-> FALSE, faults |-> 0,
              lost |-> FALSE, ran |-> 0 ]

\* measurementToRow of the stored record, written at line k
RoundTripEncode ==
  /\ remote.rows = << >>
  /\ \E k \in 2..MaxRowIndex :
       remote' = [ remote EXCEPT !.rows =
                     [ i \in 1..k |-> IF i = k THEN measurementToRow(store.blob.items[1])
                                              ELSE << >> ] ]
  /\ UNCHANGED << app, store, net, eff, op, pend, now, hist >>

\* rowToMeasurement of the row of the last line, with the number of that line
RoundTripDecode ==
  /\ remote.rows # << >>
  /\ app.measurements = << >>
  /\ app' = [ app EXCEPT !.measurements =
                 << rowToMeasurement(remote.rows[Len(remote.rows)], Len(remote.rows)) >> ]
  /\ UNCHANGED << store, net, remote, eff, op, pend, now, hist >>

RoundTripNext == RoundTripEncode \/ RoundTripDecode

SpecRoundTrip == RoundTripInit /\ [][RoundTripNext]_vars

\* C15: rowToMeasurement(measurementToRow(r), k) has the value of r in every
\* field of SHEET_FIELD_ORDER, and rowIndex k.
C15_RoundTrip ==
  app.measurements # << >>
    => LET r == store.blob.items[1]
           m == app.measurements[1]
       IN  /\ \A f \in FieldNames : f \in DOMAIN m /\ m[f] = r[f]
           /\ "rowIndex" \in DOMAIN m /\ m["rowIndex"] = Len(remote.rows)

C15_Witness ==
  /\ app.measurements # << >>
  /\ store.blob.items[1]["unit"] = "" /\ store.blob.items[1]["id"] = ""
  /\ store.blob.items[1]["name"] = "A"
  /\ app.measurements[1]["unit"] = "" /\ app.measurements[1]["name"] = "A"
  /\ app.measurements[1]["rowIndex"] = MaxRowIndex


(***************************************************************************)
(* setupSheetHeaders on its own (src/App.tsx 419-445): it is run again and *)
(* again on a spreadsheet, each run through the same requests and          *)
(* responses as inside a load.                                             *)
(***************************************************************************)
\* the number of runs
MaxRuns == 2

\* the tables a run may find: no tab, an empty tab, the schema's header, a short
\* header, a header with a cell more, and a tab whose first line is a data row
SchemaTables ==
  { [ doc |-> TRUE, tab |-> FALSE, rows |-> << >> ],
    [ doc |-> TRUE, tab |-> TRUE, rows |-> << >> ],
    [ doc |-> TRUE, tab |-> TRUE, rows |-> << SHEET_FIELD_ORDER, measurementToRow(RecA) >> ],
    [ doc |-> TRUE, tab |-> TRUE, rows |-> << << "id", "name" >>, measurementToRow(RecA) >> ],
    [ doc |-> TRUE, tab |-> TRUE,
      rows |-> << SHEET_FIELD_ORDER \o << "extra" >>, measurementToRow(RecA),
                  measurementToRow(RecL) >> ],
    [ doc |-> TRUE, tab |-> TRUE, rows |-> << measurementToRow(RecA) >> ] }

SchemaInit ==
  /\ app = [ measurements |-> << >>, currentView |-> "List",
             editingMeasurement |-> NoMeasurement,
             gapiInited |-> TRUE, gisInited |-> TRUE, tokenClient |-> NoClient,
             accessToken |-> StoredToken, isSignedIn |-> TRUE,
             userSpreadsheetId |-> SpreadsheetId,
             isLoading |-> TRUE, statusMessage |-> "SYNCING_DATA",
             actionRequiresAuth |-> NoAction ]
  /\ store = [ blob |-> NoBlob, token |-> StoredToken, expiry |-> MaxRuns + 1,
               signedIn |-> "true" ]
  /\ net = [ gapiScript |-> "done",
             gisScript |-> [ state |-> "done", restored |-> TRUE, gapiInited |-> FALSE,
                             ara |-> NoAction, signedIn |-> FALSE ],
             google |-> TRUE, tokenReq |-> NoRequest, revokes |-> { } ]
  /\ remote \in SchemaTables
  /\ eff = IdleChain
  /\ op = IdleChain
  /\ pend = [ startup |-> FALSE, session |-> FALSE ]
  /\ now = 0
  /\ hist = [ eff |-> NoHistory, op |-> NoHistory, overlap |-> FALSE, faults |-> 0,
              lost |-> FALSE, ran |-> 0 ]

\* setupSheetHeaders(token, spreadsheetId) is called; now counts the runs
SchemaRun ==
  /\ NoEffects
  /\ eff.pc = "idle" /\ net.revokes = { }
  /\ now < MaxRuns
  /\ now' = now + 1
  /\ Commit(setupSheetHeaders(
              [ World EXCEPT !.eff = [ IdleChain EXCEPT !.kind = "eff",
                                                        !.token = StoredToken,
                                                        !.sid = SpreadsheetId ],
                             !.hist.eff = [ NoHistory EXCEPT !.kind = "load" ] ],
              "eff", "tail"))
  /\ UNCHANGED remote

SchemaNext ==
  \/ SchemaRun
  \/ HeaderGetResponse("eff")
  \/ HeaderAddResponse("eff")
  \/ HeaderPutResponse("eff")

SpecSchema == SchemaInit /\ [][SchemaNext]_vars

\* C16: once setupSheetHeaders has run without a failure, a further run that
\* does not fail either changes neither the tabs nor any row of the table, and
\* sends no request to add a tab.
C16_SetupIdempotent ==
  [][ (now >= 2 /\ hist.faults = 0) => (remote' = remote /\ eff'.pc # "hdr_add") ]_vars

C16_Witness ==
  /\ now = 2 /\ hist.faults = 0 /\ eff.pc = "idle"
  /\ remote.tab /\ Len(remote.rows) = 3
  /\ remote.rows[1] = SHEET_FIELD_ORDER \o << "extra" >>


(***************************************************************************)
(* The list handed to the list view (src/App.tsx 615-621):                 *)
(* sortedMeasurements = [...measurements].sort(comparator), computed in    *)
(* every render.                                                           *)
(***************************************************************************)
\* the length of the collections that are rendered
MaxShown == 3

\* a.id < b.id on the ids used here (comparison of strings by code units)
IdRank(id) ==
  CASE id = "" -> 0
    [] id = "a" -> 1
    [] id = "b" -> 2
    [] id = "c" -> 3
    [] OTHER -> 4

\* the comparator of lines 615-621: negative when a goes before b
CompareFn(a, b) ==
  LET dateA == DateTime(a["measurementDate"])
      dateB == DateTime(b["measurementDate"])
  IN  IF dateB # dateA THEN dateB - dateA
      ELSE IF HasRowIndex(a) /\ HasRowIndex(b) /\ a["rowIndex"] # b["rowIndex"]
        THEN (IF a["rowIndex"] < b["rowIndex"] THEN -1 ELSE 1)
      ELSE (IF IdRank(a["id"]) < IdRank(b["id"]) THEN -1 ELSE 1)

\* the comparator orders the elements of ms: any two of them compare one way
\* round, and transitively
ConsistentOn(ms) ==
  /\ \A i, j \in DOMAIN ms :
       i # j => (CompareFn(ms[i], ms[j]) < 0) # (CompareFn(ms[j], ms[i]) < 0)
  /\ \A i, j, k \in DOMAIN ms :
       (CompareFn(ms[i], ms[j]) < 0 /\ CompareFn(ms[j], ms[k]) < 0)
         => CompareFn(ms[i], ms[k]) < 0

\* Array.prototype.sort: the elements in the comparator's order; when the
\* comparator does not order them, the order is left to the implementation
SortOutcomes(ms) ==
  LET perms == { [ i \in DOMAIN ms |-> ms[p[i]] ] : p \in Permutations(DOMAIN ms) }
  IN  IF ConsistentOn(ms)
        THEN { out \in perms :
                 \A i, j \in DOMAIN out : i < j => CompareFn(out[i], out[j]) < 0 }
        ELSE perms

\* records of two dates, with and without a rowIndex; the records of a
\* collection have ids of their own
DisplayRecords ==
  { Rec(id, "A", date) : id \in { "a", "b", "c" }, date \in { "2024-01-02", "2024-01-03" } }
    \cup
  { Spread(Rec(id, "A", date), [ f \in { "rowIndex" } |-> k ]) :
      id \in { "a", "b", "c" }, date \in { "2024-01-02", "2024-01-03" }, k \in { 3, 5 } }

DisplayInit ==
  /\ \E n \in 1..MaxShown : \E ms \in [ 1..n -> DisplayRecords ] :
       /\ \A i, j \in 1..n : i # j => ms[i]["id"] # ms[j]["id"]
       /\ app = [ measurements |-> ms, sortedMeasurements |-> << >>,
               currentView |-> "List", editingMeasurement |-> NoMeasurement,
               gapiInited |-> FALSE, gisInited |-> FALSE, tokenClient |-> NoClient,
               accessToken |-> Null, isSignedIn |-> FALSE, userSpreadsheetId |-> Null,
               isLoading |-> FALSE, statusMessage |-> "USING_LOCAL_STORAGE",
               actionRequiresAuth |-> NoAction ]
  /\ store = [ blob |-> NoBlob, token |-> Null, expiry |-> NoExpiry, signedIn |-> Null ]
  /\ net = [ gapiScript |-> "none",
             gisScript |-> [ state |-> "none", restored |-> FALSE, gapiInited |-> FALSE,
                             ara |-> NoAction, signedIn |-> FALSE ],
             google |-> FALSE, tokenReq |-> NoRequest, revokes |-> { } ]
  /\ remote = [ doc |-> FALSE, tab |-> FALSE, rows |-> << >> ]
  /\ eff = IdleChain
  /\ op = IdleChain
  /\ pend = [ startup |-> FALSE, session |-> FALSE ]
  /\ now = 0
  /\ hist = [ eff |-> NoHistory, op |-> NoHistory, overlap |-> FALSE, faults |-> 0,
              lost |-> FALSE, ran |-> 0 ]

\* a render computes sortedMeasurements
Render ==
  /\ app.sortedMeasurements = << >>
  /\ \E out \in SortOutcomes(app.measurements) :
       app' = [ app EXCEPT !.sortedMeasurements = out ]
  /\ UNCHANGED << store, net, remote, eff, op, pend, now, hist >>

SpecDisplay == DisplayInit /\ [][Render]_vars

\* the order the display is to have: later dates first; on the same date, by
\* rowIndex when both records have one, else by id
InDisplayOrder(a, b) ==
  LET dateA == DateTime(a["measurementDate"])
      dateB == DateTime(b["measurementDate"])
  IN  /\ dateA >= dateB
      /\ dateA = dateB =>
            IF HasRowIndex(a) /\ HasRowIndex(b)
              THEN a["rowIndex"] <= b["rowIndex"]
              ELSE IdRank(a["id"]) <= IdRank(b["id"])

\* C17: the list handed to the list view holds the records of the collection,
\* any earlier one of them before any later one in the display order.
C17_DisplayedInOrder ==
  app.sortedMeasurements # << >>
    => \A i, j \in DOMAIN app.sortedMeasurements :
         i < j => InDisplayOrder(app.sortedMeasurements[i], app.sortedMeasurements[j])


(***************************************************************************)
(* The normalisation of a submitted record (MeasurementCard.tsx 122-134,   *)
(* App.tsx 492-496), on forms with and without id and date, at instants of *)
(* three days, with the remote backend usable or not.                      *)
(***************************************************************************)
NormalizeForms ==
  { Rec(id, "A", date) : id \in { "", "a" }, date \in { "", "2024-01-02" } }
    \cup
  { Spread(Rec("a", "A", date), [ f \in { "rowIndex" } |-> 2 ]) :
      date \in { "", "2024-01-02" } }

NormalizeInit ==
  /\ \E form \in NormalizeForms, usable \in BOOLEAN :
       app = [ measurements |-> << >>, currentView |-> "Form",
               editingMeasurement |-> form,
               gapiInited |-> usable, gisInited |-> usable, tokenClient |-> NoClient,
               accessToken |-> IF usable THEN StoredToken ELSE Null,
               isSignedIn |-> usable,
               userSpreadsheetId |-> IF usable THEN SpreadsheetId ELSE Null,
               isLoading |-> FALSE, statusMessage |-> "USING_LOCAL_STORAGE",
               actionRequiresAuth |-> NoAction ]
  /\ store = [ blob |-> NoBlob, token |-> Null, expiry |-> NoExpiry, signedIn |-> Null ]
  /\ net = [ gapiScript |-> "none",
             gisScript |-> [ state |-> "none", restored |-> FALSE, gapiInited |-> FALSE,
                             ara |-> NoAction, signedIn |-> FALSE ],
             google |-> FALSE, tokenReq |-> NoRequest, revokes |-> { } ]
  /\ remote = [ doc |-> TRUE, tab |-> TRUE, rows |-> << SHEET_FIELD_ORDER >> ]
  /\ eff = IdleChain
  /\ op = IdleChain
  /\ pend = [ startup |-> FALSE, session |-> FALSE ]
  /\ now \in 0..(3 * DayTicks - 1)
  /\ hist = [ eff |-> NoHistory, op |-> NoHistory, overlap |-> FALSE, faults |-> 0,
              lost |-> FALSE, ran |-> 0 ]

\* the form is submitted as it stands: handleSubmit calls onSave = handleSave
NormalizeSubmit ==
  /\ app.currentView = "Form"
  /\ op.pc = "idle"
  /\ store.blob = NoBlob
  /\ hist.faults = 0
  /\ \E writeOk \in BOOLEAN :
       Commit(handleSave(World, handleSubmit(app.editingMeasurement), Closure(app),
                         writeOk))
  /\ UNCHANGED << remote, now >>

SpecNormalize == NormalizeInit /\ [][NormalizeSubmit]_vars

\* the records a backend has been handed: the record of the remote request,
\* the records of the local blob
HandedOver ==
  (IF op.pc \in { "save_update", "save_append" } THEN { op.m } ELSE { })
    \cup
  (IF store.blob.state = "ok"
     THEN { store.blob.items[i] : i \in DOMAIN store.blob.items } ELSE { })

\* how far the clock of the user may be ahead of UTC, in ticks of `now`
TimezoneOffsets == { -1, 0, 1 }

\* the date of the instant t on the calendar of a user z ticks ahead of UTC
LocalDate(t, z) == IF t + z < 0 THEN "2024-05-31" ELSE ToISODate(t + z)

\* C18: a record that handleSave hands to a backend has an id and a
\* measurementDate: the id and the date of the form where the form had them,
\* else an id of its own and the date of the day of the save on the user's
\* calendar (saved on 2024-06-01 with both blank: 2024-06-01).
C18_SavedRecordNormalized ==
  [][ \A s \in HandedOver' :
        LET f == app.editingMeasurement
        IN  /\ s["id"] # "" /\ s["measurementDate"] # ""
            /\ f["id"] # "" => s["id"] = f["id"]
            /\ f["measurementDate"] # "" => s["measurementDate"] = f["measurementDate"]
            /\ f["measurementDate"] = ""
                 => \A z \in TimezoneOffsets : s["measurementDate"] = LocalDate(now, z)
    ]_vars


\* the startup effect runs at mount: no script has been asked for yet
AtMount == pend.startup /\ net.gapiScript = "none"

\* the three keys of a session are in localStorage (283)
PersistedSession ==
  store.token # Null /\ store.expiry # NoExpiry /\ store.signedIn = "true"

\* C19: at startup a persisted session that has not expired (now < expiry) is
\* resumed: signed in with the persisted token, and no token is requested; a
\* persisted session that has expired (now >= expiry) is purged: the three keys
\* are removed and the session stays signed out.
C19_StartupRestoresOrPurges ==
  [][ (AtMount /\ PersistedSession)
        => IF now < store.expiry
             THEN /\ app'.isSignedIn /\ app'.accessToken = store.token
                  /\ ~net'.tokenReq.pending
                  /\ store' = store
             ELSE /\ ~app'.isSignedIn /\ app'.accessToken = Null
                  /\ store'.token = Null /\ store'.expiry = NoExpiry
                  /\ store'.signedIn = Null
                  /\ ~net'.tokenReq.pending ]_vars

\* the session has been resumed from the persisted keys and the scripts are
\* being loaded
C19_Witness ==
  /\ app.isSignedIn /\ app.accessToken = StoredToken
  /\ store.token = StoredToken /\ store.signedIn = "true" /\ now < store.expiry
  /\ net.gapiScript = "loading" /\ net.gisScript.state = "loading"
  /\ net.gisScript.restored
  /\ ~net.tokenReq.pending /\ eff.pc = "idle"


\* a token request is the only thing outstanding: the next step is its response
\* or its abandonment
TokenAwaited ==
  /\ NoEffects /\ net.tokenReq.pending
  /\ eff.pc = "idle" /\ op.pc = "idle"
  /\ ~Loading(net.gapiScript) /\ ~Loading(net.gisScript.state)
  /\ net.revokes = { }

\* the session as a response with an access token is to leave it, in the
\* state of the component and in localStorage
TokenKept ==
  /\ app'.isSignedIn /\ app'.accessToken = FreshToken
  /\ store'.token = FreshToken /\ store'.expiry = now + ExpiresIn
  /\ store'.signedIn = "true"

\* the session as a response without an access token is to leave it
TokenRefused ==
  /\ ~app'.isSignedIn /\ app'.accessToken = Null
  /\ store'.token = Null /\ store'.expiry = NoExpiry /\ store'.signedIn = Null

\* the expiry held in the state of the component, if any is
InMemoryExpiry(a) == IF "tokenExpiry" \in DOMAIN a THEN a.tokenExpiry ELSE NoExpiry

SessionCleared ==
  /\ ~app.isSignedIn /\ app.accessToken = Null /\ app.userSpreadsheetId = Null
  /\ app.actionRequiresAuth = NoAction
  /\ store.token = Null /\ store.expiry = NoExpiry /\ store.signedIn = Null

\* C21: the sign-out the user asked for does not wait for the revocation: while
\* the revocation of an explicit sign-out has not called back (and so also when
\* it never does), the token in memory is null, the session is signed out, the
\* spreadsheet id null, the pending continuation cleared and the session keys
\* removed.
C21_SignOutNotBlocked ==
  \A rv \in net.revokes : ~rv.auto => SessionCleared


\* a save or a delete sends its first remote request
RemoteOperationStarts == op.pc = "idle" /\ op'.pc # "idle"

\* C22: a save or a delete sends a remote request only when the session is
\* signed in, the expiry stored with its token has not passed (now < expiry)
\* and gapi is initialised.
C22_RemoteOnlyWhileTokenValid ==
  [][ RemoteOperationStarts
        => /\ app.isSignedIn /\ app.gapiInited
           /\ store.expiry # NoExpiry /\ now < store.expiry ]_vars


(***************************************************************************)
(* The component once mounted: signed out with no session stored, both     *)
(* libraries loaded, the local records loaded; the list is shown, or 'add  *)
(* new' has been pressed and the form is open.  The clock is read from     *)
(* that instant.                                                           *)
(***************************************************************************)
MountedInit ==
  /\ \E formOpen \in BOOLEAN :
       app = [ measurements |-> ParseStored([ state |-> "ok", items |-> << RecL >> ]),
               currentView |-> IF formOpen THEN "Form" ELSE "List",
               editingMeasurement |->
                 IF formOpen THEN initialMeasurementState ELSE NoMeasurement,
               gapiInited |-> TRUE, gisInited |-> TRUE,
               tokenClient |-> [ ready |-> TRUE, ara |-> NoAction, signedIn |-> FALSE ],
               accessToken |-> Null, isSignedIn |-> FALSE, userSpreadsheetId |-> Null,
               isLoading |-> FALSE, statusMessage |-> "USING_LOCAL_STORAGE",
               actionRequiresAuth |-> NoAction ]
  /\ store = [ blob |-> [ state |-> "ok", items |-> << RecL >> ], token |-> Null,
               expiry |-> NoExpiry, signedIn |-> Null ]
  /\ net = [ gapiScript |-> "done",
             gisScript |-> [ state |-> "done", restored |-> FALSE, gapiInited |-> FALSE,
                             ara |-> NoAction, signedIn |-> FALSE ],
             google |-> TRUE, tokenReq |-> NoRequest, revokes |-> { } ]
  /\ remote \in InitialRemotes
  /\ eff = IdleChain
  /\ op = IdleChain
  /\ pend = [ startup |-> FALSE, session |-> FALSE ]
  /\ now = 0
  /\ hist = [ eff |-> NoHistory, op |-> NoHistory, overlap |-> FALSE, faults |-> 0,
              lost |-> FALSE, ran |-> 0 ]

SpecMounted == MountedInit /\ [][Next]_vars

\* C23: the collection never holds records of both origins: records decoded
\* from the rows of a remote read (they carry the rowIndex of their row) beside
\* records of the local store (they have none).
C23_OneOrigin ==
  ~ \E i, j \in DOMAIN app.measurements :
       HasRowIndex(app.measurements[i]) /\ ~HasRowIndex(app.measurements[j])


(***************************************************************************)
(* handleSave of a signed-out component (src/App.tsx 492-516): the form is *)
(* open on a new record or on a record of the collection, the local store  *)
(* holds the collection, the libraries are loaded or not.                  *)
(***************************************************************************)
LocalSaveBlobs ==
  { NoBlob, [ state |-> "ok", items |-> << RecL >> ],
    [ state |-> "ok", items |-> << RecL, RecA >> ] }

LocalSaveForms ==
  { Rec("", "B", ""), Rec("", "B", "2024-01-02"), Rec("a", "B", "2024-01-02"),
    Rec("a", "B", ""), Rec("l", "B", "2024-01-03") }

LocalSaveInit ==
  /\ store \in { [ blob |-> b, token |-> Null, expiry |-> NoExpiry, signedIn |-> Null ] :
                    b \in LocalSaveBlobs }
  /\ \E form \in LocalSaveForms, gapi \in BOOLEAN,
        client \in { NoClient, [ ready |-> TRUE, ara |-> NoAction, signedIn |-> FALSE ] } :
       /\ form["id"] # "" => \E i \in DOMAIN ParseStored(store.blob) :
                                 ParseStored(store.blob)[i]["id"] = form["id"]
       /\ app = [ measurements |-> ParseStored(store.blob), currentView |-> "Form",
                  editingMeasurement |-> form,
                  gapiInited |-> gapi, gisInited |-> client.ready,
                  tokenClient |-> client,
                  accessToken |-> Null, isSignedIn |-> FALSE,
                  userSpreadsheetId |-> Null,
                  isLoading |-> FALSE, statusMessage |-> "USING_LOCAL_STORAGE",
                  actionRequiresAuth |-> NoAction ]
       /\ net = [ gapiScript |-> IF gapi THEN "done" ELSE "failed",
                  gisScript |-> [ state |-> IF client.ready THEN "done" ELSE "failed",
                                  restored |-> FALSE, gapiInited |-> FALSE,
                                  ara |-> NoAction, signedIn |-> FALSE ],
                  google |-> client.ready, tokenReq |-> NoRequest, revokes |-> { } ]
  /\ remote = [ doc |-> FALSE, tab |-> FALSE, rows |-> << >> ]
  /\ eff = IdleChain
  /\ op = IdleChain
  /\ pend = [ startup |-> FALSE, session |-> FALSE ]
  /\ now \in 0..1
  /\ hist = [ eff |-> NoHistory, op |-> NoHistory, overlap |-> FALSE, faults |-> 0,
              lost |-> FALSE, ran |-> 0 ]

\* the form is submitted
LocalSaveSubmit ==
  /\ app.currentView = "Form"
  /\ ~net.tokenReq.pending
  /\ hist.faults = 0
  /\ \E writeOk \in BOOLEAN :
       Commit(handleSave(World, handleSubmit(app.editingMeasurement), Closure(app),
                         writeOk))
  /\ UNCHANGED << remote, now >>

SpecLocalSave == LocalSaveInit /\ [][LocalSaveSubmit]_vars

\* ms is in the order of the dates, latest first
DateDescending(ms) ==
  \A i, j \in DOMAIN ms :
    i < j => DateTime(ms[i]["measurementDate"]) >= DateTime(ms[j]["measurementDate"])

\* the collection ms is prev with the record of the form f saved in it: in the
\* place of the record of its id, or added
SavedInto(prev, f, ms) ==
  LET id == IF f["id"] = "" THEN TimestampId ELSE f["id"]
      known == \E i \in DOMAIN prev : prev[i]["id"] = id
  IN  /\ Len(ms) = IF known THEN Len(prev) ELSE Len(prev) + 1
      /\ \E i \in DOMAIN ms : ms[i]["id"] = id /\ ms[i]["name"] = f["name"]
      /\ \A k \in DOMAIN prev :
           prev[k]["id"] # id => \E i \in DOMAIN ms : ms[i] = prev[k]

\* C24: a save of the signed-out component goes to the local store: the record
\* replaces the record of its id or is added, the collection is sorted and
\* also written to the blob (unless the write fails), the loading flag is down
\* and no token is requested.
C24_SignedOutSaveIsLocal ==
  [][ ~app.isSignedIn
        => /\ SavedInto(app.measurements, app.editingMeasurement, app'.measurements)
           /\ DateDescending(app'.measurements)
           /\ \/ store'.blob = [ state |-> "ok", items |-> app'.measurements ]
              \/ store' = store /\ hist'.faults = hist.faults + 1
           /\ ~app'.isLoading
           /\ ~net'.tokenReq.pending ]_vars


\* the requests that write the row of a saved record
SaveWrites == { "save_update", "save_append" }

\* the write the save chain awaits succeeds in this step
SaveWritten == op.pc \in SaveWrites /\ hist'.op.wrote

\* C25: a remote save of a record with a rowIndex sends one values.update that
\* writes the record over that line and leaves the other lines alone, a remote
\* save of a record without rowIndex sends one values.append that adds a line
\* after the used ones and leaves these alone; no second write follows in the
\* operation, and when the write has succeeded the reading of the whole sheet
\* is awaited next.
C25_OneWriteThenReload ==
  [][ /\ (RemoteOperationStarts /\ op'.kind = "save")
          => op'.pc = IF HasRowIndex(op'.m) THEN "save_update" ELSE "save_append"
      /\ op.pc # "idle" => (op'.pc \in SaveWrites => op' = op)
      /\ SaveWritten
          => /\ op'.pc = "read" /\ op'.m = op.m
             /\ LET k == IF op.pc = "save_update" THEN op.m["rowIndex"]
                                                  ELSE UsedRows(remote.rows) + 1
                IN  /\ Len(remote'.rows) = Max(Len(remote.rows), k)
                    /\ SubSeq(remote'.rows[k], 1, NumFields) = measurementToRow(op.m)
                    /\ \A i \in DOMAIN remote.rows :
                         i # k => remote'.rows[i] = remote.rows[i]
    ]_vars

\* a record with a rowIndex has been written over its line and the sheet is
\* being read again
C25_Witness ==
  /\ op.kind = "save" /\ op.pc = "read" /\ hist.op.wrote
  /\ HasRowIndex(op.m)
  /\ SubSeq(remote.rows[op.m["rowIndex"]], 1, NumFields) = measurementToRow(op.m)
  /\ op.m["name"] = "B"


WithoutLine(rows, rows2, k) ==
  IF k <= Len(rows)
    THEN /\ Len(rows2) = Len(rows) - 1
         /\ \A i \in 1..(k - 1) : rows2[i] = rows[i]
         /\ \A i \in k..Len(rows2) : rows2[i] = rows[i + 1]
    ELSE rows2 = rows

\* The application with a restored session, after the load of the session has
\* read the table; the owner of the spreadsheet has left it alone since, or
\* removed the tab, or removed the document.
SyncedRows == << SHEET_FIELD_ORDER, measurementToRow(RecA) >>

SyncedInit ==
  /\ app = [ measurements |-> DecodeRows(ReadValues(SyncedRows)),
             currentView |-> "List", editingMeasurement |-> NoMeasurement,
             gapiInited |-> TRUE, gisInited |-> TRUE,
             tokenClient |-> [ ready |-> TRUE, ara |-> NoAction, signedIn |-> TRUE ],
             accessToken |-> StoredToken, isSignedIn |-> TRUE,
             userSpreadsheetId |-> SpreadsheetId,
             isLoading |-> FALSE, statusMessage |-> "SYNCED_WITH_GOOGLE_SHEETS",
             actionRequiresAuth |-> NoAction ]
  /\ \E blob \in InitialBlobs :
       store = [ blob |-> blob, token |-> StoredToken, expiry |-> 1, signedIn |-> "true" ]
  /\ net = [ gapiScript |-> "done",
             gisScript |-> [ state |-> "done", restored |-> TRUE, gapiInited |-> FALSE,
                             ara |-> NoAction, signedIn |-> TRUE ],
             google |-> TRUE, tokenReq |-> NoRequest, revokes |-> { } ]
  /\ remote \in { [ doc |-> TRUE, tab |-> TRUE, rows |-> SyncedRows ],
                  [ doc |-> TRUE, tab |-> FALSE, rows |-> << >> ],
                  [ doc |-> FALSE, tab |-> FALSE, rows |-> << >> ] }
  /\ eff = IdleChain
  /\ op = IdleChain
  /\ pend = [ startup |-> FALSE, session |-> FALSE ]
  /\ now = 0
  /\ hist = [ eff |-> NoHistory, op |-> NoHistory, overlap |-> FALSE, faults |-> 0,
              lost |-> FALSE, ran |-> 0 ]

SpecSynced == SyncedInit /\ [][Next]_vars

\* C27: a remote delete starts with the lookup of the tab's numeric id, for a
\* record that has a rowIndex; the row deletion is requested only by the step
\* in which that lookup found the tab, once, and that step changes neither
\* the table nor the collection; when the lookup fails or finds no tab, the
\* delete ends without a row deletion, the table and the collection as they
\* were; when the row deletion is done, exactly line rowIndex of the table
\* is gone and the delete awaits the read of the full table.
C27_LookupThenOneRowDeletion ==
  [][ /\ (op.pc = "idle" /\ op'.pc # "idle" /\ op'.kind = "delete")
          => op'.pc = "del_get" /\ HasRowIndex(op'.m)
      /\ (op'.pc = "del_row" /\ op' # op)
          => /\ op.pc = "del_get" /\ remote.doc /\ remote.tab
             /\ op'.m = op.m
             /\ remote' = remote
             /\ app'.measurements = app.measurements
      /\ (op.pc = "del_get" /\ op' # op /\ op'.pc # "del_row")
          => /\ op'.pc = "idle"
             /\ ~hist'.op.wrote
             /\ remote' = remote
             /\ app'.measurements = app.measurements
      /\ (op.pc = "del_row" /\ remote' # remote)
          => /\ hist'.op.wrote
             /\ WithoutLine(remote.rows, remote'.rows, op.m["rowIndex"])
      /\ (op.pc = "del_row" /\ hist'.op.wrote)
          => /\ op'.pc = "read" /\ op'.kind = "delete" /\ op'.m = op.m
             /\ WithoutLine(remote.rows, remote'.rows, op.m["rowIndex"])
             /\ app'.measurements = app.measurements
      /\ (op.pc = "del_row" /\ ~hist'.op.wrote) => remote' = remote
    ]_vars

\* the lookup of a delete found no tab
C27_NoTabFound ==
  /\ hist.op.kind = "delete" /\ op.pc = "idle" /\ ~hist.op.wrote
  /\ hist.op.lastError = Ok /\ remote.doc /\ ~remote.tab

\* a row deletion was done, the line of the record is gone and the reload is
\* awaited
C27_Witness ==
  /\ op.kind = "delete" /\ op.pc = "read" /\ hist.op.wrote
  /\ op.m["rowIndex"] = 2
  /\ \A i \in DOMAIN remote.rows :
       (i >= 2 /\ Len(remote.rows[i]) > 0) => remote.rows[i][1] # op.m["id"]
  /\ \E i \in DOMAIN app.measurements : app.measurements[i]["id"] = op.m["id"]

(***************************************************************************)
(* C28.  The read of a table whose lines are data rows, rows without id    *)
(* and blank lines in any order.                                           *)
(***************************************************************************)
\* the number of lines below the header
MaxLines == 3

\* a data row, another, a row with a name and no id, a row of one cell, a
\* blank line
TableLines ==
  { measurementToRow(RecA), measurementToRow(RecL),
    measurementToRow(Rec("", "N", "2024-01-02")), << "s" >>, << >> }

RECURSIVE Tables(_)
Tables(n) ==
  IF n = 0 THEN { << SHEET_FIELD_ORDER >> }
  ELSE LET shorter == Tables(n - 1)
       IN  shorter \cup { Append(t, l) : t \in { u \in shorter : Len(u) = n }, l \in TableLines }

ReadInit ==
  /\ app = [ measurements |-> << >>, currentView |-> "List",
             editingMeasurement |-> NoMeasurement,
             gapiInited |-> TRUE, gisInited |-> TRUE, tokenClient |-> NoClient,
             accessToken |-> StoredToken, isSignedIn |-> TRUE,
             userSpreadsheetId |-> SpreadsheetId,
             isLoading |-> TRUE, statusMessage |-> "AUTHENTICATED_SEARCHING_SHEET",
             actionRequiresAuth |-> NoAction ]
  /\ store = [ blob |-> NoBlob, token |-> StoredToken, expiry |-> 1, signedIn |-> "true" ]
  /\ net = [ gapiScript |-> "done",
             gisScript |-> [ state |-> "done", restored |-> TRUE, gapiInited |-> FALSE,
                             ara |-> NoAction, signedIn |-> FALSE ],
             google |-> TRUE, tokenReq |-> NoRequest, revokes |-> { } ]
  /\ \E rows \in Tables(MaxLines) : remote = [ doc |-> TRUE, tab |-> TRUE, rows |-> rows ]
  /\ eff = IdleChain
  /\ op = IdleChain
  /\ pend = [ startup |-> FALSE, session |-> FALSE ]
  /\ now = 0
  /\ hist = [ eff |-> NoHistory, op |-> NoHistory, overlap |-> FALSE, faults |-> 0,
              lost |-> FALSE, ran |-> 0 ]

\* loadMeasurementsFromSheet(token, spreadsheetId) is called
ReadStart ==
  /\ NoEffects
  /\ eff.pc = "idle" /\ hist.eff.kind = "none"
  /\ Commit(loadMeasurementsFromSheet(
              [ World EXCEPT !.eff = [ IdleChain EXCEPT !.kind = "eff",
                                                        !.token = StoredToken,
                                                        !.sid = SpreadsheetId ],
                             !.hist.eff = [ NoHistory EXCEPT !.kind = "load" ] ],
              "eff"))
  /\ UNCHANGED << remote, now >>

\* the read returns the values of the table
ReadReturns == ReadResponse("eff") /\ hist'.faults = 0

ReadNext == ReadStart \/ ReadReturns

SpecRead == ReadInit /\ [][ReadNext]_vars

\* the decoded id of line k of the table
IdOfLine(k) == IF Len(remote.rows[k]) > 0 THEN remote.rows[k][1] ELSE ""

\* the load has read the table
ReadDone == hist.eff.kind = "load" /\ eff.pc = "idle" /\ hist.eff.lastError = Ok

\* C28: after a remote read every record of the collection has a non-empty
\* id and a rowIndex of 2 or more that is the 1-based number of the line of
\* the table it was decoded from, every line below the header whose id is not
\* empty has its record and no line whose id is empty has one, and rowIndex
\* grows along the collection, so that no two records share one.
C28_RowIndexIsLineNumber ==
  ReadDone =>
    LET ms == app.measurements
    IN  /\ \A i \in DOMAIN ms :
             /\ ms[i]["id"] # ""
             /\ ms[i]["rowIndex"] \in 2..Len(remote.rows)
             /\ ms[i] = rowToMeasurement(remote.rows[ms[i]["rowIndex"]], ms[i]["rowIndex"])
             /\ ms[i]["id"] = IdOfLine(ms[i]["rowIndex"])
        /\ \A k \in 2..Len(remote.rows) :
             (IdOfLine(k) # "") <=> (\E i \in DOMAIN ms : ms[i]["rowIndex"] = k)
        /\ \A i, j \in DOMAIN ms : i < j => ms[i]["rowIndex"] < ms[j]["rowIndex"]

\* a record was read from a line that follows a row without id and a blank line
C28_Witness ==
  /\ ReadDone
  /\ Len(remote.rows) = 4
  /\ remote.rows[2] = measurementToRow(Rec("", "N", "2024-01-02"))
  /\ remote.rows[3] = << >>
  /\ Len(app.measurements) = 1
  /\ app.measurements[1]["rowIndex"] = 4 /\ app.measurements[1]["id"] = "a"

(***************************************************************************)
(* C29.  The local load, called by the effect on the session state of a    *)
(* signed-out render and by handleSignoutLogic.                            *)
(***************************************************************************)
\* the blobs under LOCAL_STORAGE_KEY: none, one that does not parse, one
\* record, two records, a record stored with two of its fields only
LocalLoadBlobs ==
  { NoBlob, [ state |-> "corrupt" ],
    [ state |-> "ok", items |-> << RecL >> ],
    [ state |-> "ok", items |-> << RecL, RecA >> ],
    [ state |-> "ok", items |-> << [ id |-> "p", name |-> "P" ] >> ] }

\* the collections of the render: none, the records of a remote read, a
\* record of the local store
LocalLoadCollections ==
  { << >>, DecodeRows(ReadValues(SyncedRows)), << Spread(initialMeasurementState, RecL) >> }

LocalLoadInit ==
  /\ \E signedIn, loading, formOpen \in BOOLEAN, ms \in LocalLoadCollections :
       /\ (\E i \in DOMAIN ms : HasRowIndex(ms[i])) => signedIn
       /\ app = [ measurements |-> ms,
                  currentView |-> IF formOpen THEN "Form" ELSE "List",
                  editingMeasurement |->
                    IF formOpen THEN initialMeasurementState ELSE NoMeasurement,
                  gapiInited |-> TRUE, gisInited |-> TRUE,
                  tokenClient |-> [ ready |-> TRUE, ara |-> NoAction, signedIn |-> signedIn ],
                  accessToken |-> IF signedIn THEN StoredToken ELSE Null,
                  isSignedIn |-> signedIn,
                  userSpreadsheetId |-> IF signedIn THEN SpreadsheetId ELSE Null,
                  isLoading |-> loading,
                  statusMessage |-> IF signedIn THEN "SYNCED_WITH_GOOGLE_SHEETS"
                                                ELSE "USING_LOCAL_STORAGE",
                  actionRequiresAuth |-> NoAction ]
       /\ \E blob \in LocalLoadBlobs :
            store = IF signedIn
                      THEN [ blob |-> blob, token |-> StoredToken, expiry |-> 1,
                             signedIn |-> "true" ]
                      ELSE [ blob |-> blob, token |-> Null, expiry |-> NoExpiry,
                             signedIn |-> Null ]
  /\ net = [ gapiScript |-> "done",
             gisScript |-> [ state |-> "done", restored |-> app.isSignedIn,
                             gapiInited |-> FALSE, ara |-> NoAction,
                             signedIn |-> app.isSignedIn ],
             google |-> TRUE, tokenReq |-> NoRequest, revokes |-> { } ]
  /\ remote = [ doc |-> TRUE, tab |-> TRUE, rows |-> SyncedRows ]
  /\ eff = IdleChain
  /\ op = IdleChain
  /\ pend = [ startup |-> FALSE, session |-> FALSE ]
  /\ now = 0
  /\ hist = [ eff |-> NoHistory, op |-> NoHistory, overlap |-> FALSE, faults |-> 0,
              lost |-> FALSE, ran |-> 0 ]

\* loadMeasurementsFromLocalStorage() of a signed-out render is called (381)
LocalLoadCalled ==
  /\ now = 0
  /\ ~app.isSignedIn
  /\ Commit(loadMeasurementsFromLocalStorage(World, app.isSignedIn))
  /\ now' = 1
  /\ UNCHANGED remote

\* handleSignoutLogic of the render is called: it ends with the local load (155)
LocalLoadInSignOut ==
  /\ now = 0
  /\ \E isAutoSignoutDueToError \in BOOLEAN :
       Commit(handleSignoutLogic(World, isAutoSignoutDueToError, app.isSignedIn))
  /\ now' = 1
  /\ UNCHANGED remote

LocalLoadNext == LocalLoadCalled \/ LocalLoadInSignOut

SpecLocalLoad == LocalLoadInit /\ [][LocalLoadNext]_vars

\* the collection is what the blob holds: nothing when the key is absent or
\* its value does not parse, else the stored records in their order, each with
\* the fields of the default record it lacks
LoadedFrom(blob, ms) ==
  IF blob.state = "ok"
    THEN /\ Len(ms) = Len(blob.items)
         /\ \A i \in DOMAIN ms :
              /\ DOMAIN ms[i] = DOMAIN initialMeasurementState \cup DOMAIN blob.items[i]
              /\ \A f \in DOMAIN ms[i] :
                   ms[i][f] = IF f \in DOMAIN blob.items[i] THEN blob.items[i][f]
                              ELSE initialMeasurementState[f]
    ELSE ms = << >>

\* C29: after the local load the collection is what the blob gives, the
\* loading flag is false, and the status is the error of the local read when
\* the blob does not parse.
C29_LocalLoad ==
  now = 1 =>
    /\ LoadedFrom(store.blob, app.measurements)
    /\ ~app.isLoading
    /\ store.blob.state = "corrupt" => app.statusMessage = "ERROR_LOADING_LOCAL_DATA"

(***************************************************************************)
(* C30.  Saves and deletes of the component that works on the local store  *)
(* (signed out, no token client), the write to localStorage failing or     *)
(* not.                                                                    *)
(***************************************************************************)
LocalWriteInit ==
  /\ store \in { [ blob |-> b, token |-> Null, expiry |-> NoExpiry, signedIn |-> Null ] :
                    b \in LocalSaveBlobs }
  /\ \E form \in LocalSaveForms \cup { NoMeasurement }, gapi \in BOOLEAN :
       /\ IF form = NoMeasurement THEN TRUE
          ELSE form["id"] # "" => \E i \in DOMAIN ParseStored(store.blob) :
                                    ParseStored(store.blob)[i]["id"] = form["id"]
       /\ app = [ measurements |-> ParseStored(store.blob),
                  currentView |-> IF form = NoMeasurement THEN "List" ELSE "Form",
                  editingMeasurement |-> form,
                  gapiInited |-> gapi, gisInited |-> FALSE, tokenClient |-> NoClient,
                  accessToken |-> Null, isSignedIn |-> FALSE,
                  userSpreadsheetId |-> Null,
                  isLoading |-> FALSE, statusMessage |-> "USING_LOCAL_STORAGE",
                  actionRequiresAuth |-> NoAction ]
       /\ net = [ gapiScript |-> IF gapi THEN "done" ELSE "failed",
                  gisScript |-> [ state |-> "failed", restored |-> FALSE,
                                  gapiInited |-> FALSE, ara |-> NoAction,
                                  signedIn |-> FALSE ],
                  google |-> FALSE, tokenReq |-> NoRequest, revokes |-> { } ]
  /\ remote = [ doc |-> FALSE, tab |-> FALSE, rows |-> << >> ]
  /\ eff = IdleChain
  /\ op = IdleChain
  /\ pend = [ startup |-> FALSE, session |-> FALSE ]
  /\ now \in 0..1
  /\ hist = [ eff |-> NoHistory, op |-> NoHistory, overlap |-> FALSE, faults |-> 0,
              lost |-> FALSE, ran |-> 0 ]

\* the user presses the delete button of a card and confirms
LocalDeleteClick ==
  /\ app.currentView = "List"
  /\ hist.faults = 0
  /\ \E i \in DOMAIN app.measurements, writeOk \in BOOLEAN :
       Commit(handleDelete(World, app.measurements[i]["id"], Closure(app), TRUE, writeOk))
  /\ UNCHANGED << remote, now >>

LocalWriteNext == LocalSaveSubmit \/ LocalDeleteClick

SpecLocalWrite == LocalWriteInit /\ [][LocalWriteNext]_vars

\* the write to localStorage of this step fails
LocalWriteFails == hist'.faults = hist.faults + 1

\* the collection ms is prev without the records of one of its ids
DeletedFrom(prev, ms) ==
  \E i \in DOMAIN prev :
    ms = SelectSeq(prev, LAMBDA m : m["id"] # prev[i]["id"])

\* C30: a local save or local delete whose write to localStorage fails runs
\* to its end all the same: localStorage is as it was, the collection holds
\* the saved record (the list is shown again) or lacks the deleted one, the
\* loading flag is false, and nothing is asked of the backend.
C30_FailedLocalWrite ==
  [][ LocalWriteFails
        => /\ store' = store
           /\ ~app'.isLoading
           /\ op' = op /\ eff' = eff /\ net' = net
           /\ app'.currentView = "List" /\ app'.editingMeasurement = NoMeasurement
           /\ IF app.currentView = "Form"
                THEN SavedInto(app.measurements, app.editingMeasurement, app'.measurements)
                ELSE DeletedFrom(app.measurements, app'.measurements)
    ]_vars

\* a record was saved though the write failed: the blob holds what it held
C30_Witness ==
  /\ hist.faults = 1
  /\ store.blob.state = "ok"
  /\ Len(app.measurements) = Len(store.blob.items) + 1
  /\ app.statusMessage = "ERROR_SAVING_LOCAL_DATA"
  /\ ~app.isLoading

(***************************************************************************)
(* C31.  The message after a sign-out.                                     *)
(***************************************************************************)
\* the messages of handleSignoutLogic (150-154): of a sign-out forced by an
\* authentication failure, and of the user's own
SignOutMessages == { "SESSION_EXPIRED_SIGN_IN", "SIGNED_OUT_USING_LOCAL" }

RecL2 == Rec("l", "M", "2024-01-02")

LocalDeleteCollections ==
  { << >>, << RecL >>, << RecL, RecA >>, << RecL, RecA, RecL2 >>,
    DecodeRows(ReadValues(<< SHEET_FIELD_ORDER, measurementToRow(RecA),
                             measurementToRow(RecL) >>)) }

LocalDeleteBlobs ==
  { NoBlob, [ state |-> "ok", items |-> << RecL >> ],
    [ state |-> "ok", items |-> << RecL, RecA, RecL2 >> ] }

\* the ids handleDelete is called with
DeleteIds == { "a", "l", "x" }

LocalDeleteInit ==
  /\ \E signedIn, gapi \in BOOLEAN, ms \in LocalDeleteCollections, blob \in LocalDeleteBlobs :
       /\ signedIn => ~gapi
       /\ (\E i \in DOMAIN ms : HasRowIndex(ms[i])) => signedIn
       /\ app = [ measurements |-> ms,
                  currentView |-> "List", editingMeasurement |-> NoMeasurement,
                  gapiInited |-> gapi, gisInited |-> signedIn,
                  tokenClient |-> IF signedIn
                                    THEN [ ready |-> TRUE, ara |-> NoAction, signedIn |-> TRUE ]
                                    ELSE NoClient,
                  accessToken |-> IF signedIn THEN StoredToken ELSE Null,
                  isSignedIn |-> signedIn,
                  userSpreadsheetId |-> IF signedIn THEN SpreadsheetId ELSE Null,
                  isLoading |-> FALSE,
                  statusMessage |-> IF signedIn THEN "ERROR_GAPI_LOAD"
                                                ELSE "USING_LOCAL_STORAGE",
                  actionRequiresAuth |-> NoAction ]
       /\ store = IF signedIn
                    THEN [ blob |-> blob, token |-> StoredToken, expiry |-> 1,
                           signedIn |-> "true" ]
                    ELSE [ blob |-> blob, token |-> Null, expiry |-> NoExpiry,
                           signedIn |-> Null ]
       /\ net = [ gapiScript |-> IF gapi THEN "done" ELSE "failed",
                  gisScript |-> [ state |-> IF signedIn THEN "done" ELSE "failed",
                                  restored |-> signedIn, gapiInited |-> FALSE,
                                  ara |-> NoAction, signedIn |-> signedIn ],
                  google |-> signedIn, tokenReq |-> NoRequest, revokes |-> { } ]
  /\ remote = [ doc |-> TRUE, tab |-> TRUE,
                rows |-> << SHEET_FIELD_ORDER, measurementToRow(RecA), measurementToRow(RecL) >> ]
  /\ eff = IdleChain
  /\ op = IdleChain
  /\ pend = [ startup |-> FALSE, session |-> FALSE ]
  /\ now = 0
  /\ hist = [ eff |-> NoHistory, op |-> NoHistory, overlap |-> FALSE, faults |-> 0,
              lost |-> FALSE, ran |-> 0 ]

\* handleDelete(id) is called and the user confirms; the history keeps the id
LocalDeleteCall ==
  /\ hist.faults = 0
  /\ \E id \in DeleteIds, writeOk \in BOOLEAN :
       Commit(handleDelete([ World EXCEPT !.hist.op = [ kind |-> "delete", id |-> id ] ],
                           id, Closure(app), TRUE, writeOk))
  /\ UNCHANGED << remote, now >>

SpecLocalDelete == LocalDeleteInit /\ [][LocalDeleteCall]_vars

\* C32: handleDelete(id) on the local store leaves the collection without
\* the records of that id, the others as they were and in their order; the
\* blob then holds that collection (unless the write to localStorage failed,
\* in which case it is as before); with an id that no record has, collection
\* and store stay as they are.
C32_LocalDeleteFilters ==
  [][ LET id == hist'.op.id
          present == \E i \in DOMAIN app.measurements : app.measurements[i]["id"] = id
      IN  /\ app'.measurements = SelectSeq(app.measurements, LAMBDA m : m["id"] # id)
          /\ present => /\ ~app'.isLoading
                         /\ \/ store'.blob = [ state |-> "ok", items |-> app'.measurements ]
                            \/ store'.blob = store.blob /\ hist'.faults = hist.faults + 1
          /\ ~present => app' = app /\ store' = store
          /\ op' = op /\ net' = net
    ]_vars

\* the records of id l were deleted; the record of id a is kept and written
C32_Witness ==
  /\ hist.op.kind = "delete" /\ hist.op.id = "l"
  /\ app.measurements = << RecA >>
  /\ store.blob = [ state |-> "ok", items |-> << RecA >> ]
  /\ hist.faults = 0

(***************************************************************************)
(* C33.  The row a remote update or row deletion hits.                     *)
(***************************************************************************)
\* the in-place update or the row deletion of the record op.m is done
RowMutated == op.pc \in { "save_update", "del_row" } /\ hist'.op.wrote

\* C33: whenever a remote in-place update or row deletion is done, the line
\* of the table it is done on, the one the record's rowIndex names, is the
\* row whose id cell holds the id of the record.
C33_MutationHitsOwnRow ==
  [][ RowMutated
        => /\ op.m["rowIndex"] <= Len(remote.rows)
           /\ IdOfLine(op.m["rowIndex"]) = op.m["id"]
    ]_vars

(***************************************************************************)
(* C34.  The save that was stored as the continuation of a sign-in.        *)
(***************************************************************************)
\* handleSave has stored the save of a record of this name as the
\* continuation (499-502), and the continuation is still stored
SaveDeferred(name) ==
  /\ app.actionRequiresAuth.kind = "save"
  /\ app.actionRequiresAuth.m["name"] = name

\* the token response brought a token, and the controller has settled
SignedInAndSettled == Quiet /\ app.isSignedIn /\ app.accessToken = FreshToken

\* a record of this name is in the collection, and in the table or the blob
SaveCarriedOut(name) ==
  /\ \E i \in DOMAIN app.measurements : app.measurements[i]["name"] = name
  /\ \/ \E k \in DOMAIN remote.rows :
          Len(remote.rows[k]) >= 2 /\ remote.rows[k][2] = name
     \/ /\ store.blob.state = "ok"
        /\ \E i \in DOMAIN store.blob.items : store.blob.items[i]["name"] = name

\* C34: when a save was stored as the continuation of a sign-in and the
\* token response has brought a token, then, once the controller has settled,
\* the record is in the collection and in a backend.
C34_DeferredSaveCarriedOut ==
  \A name \in Names :
    (SaveDeferred(name) /\ SignedInAndSettled) => SaveCarriedOut(name)

(***************************************************************************)
(* C35.  The session in memory and the session kept in the browser.        *)
(***************************************************************************)
\* the session in memory is signed out
SignedOut == ~app.isSignedIn /\ app.accessToken = Null

\* localStorage holds none of the three session keys
NoSessionKeys == store.token = Null /\ store.expiry = NoExpiry /\ store.signedIn = Null

\* C35: a step that clears the session in memory leaves none of the session
\* keys in localStorage, and whenever the session in memory is signed out and
\* the controller has settled, localStorage holds none of them.
C35_SignedOutLeavesNoKeys ==
  [][ /\ (~SignedOut /\ SignedOut') => NoSessionKeys'
      /\ (SignedOut /\ Quiet) => NoSessionKeys
    ]_vars

(***************************************************************************)
(* C36.  The comparator of the displayed list as an order.                 *)
(***************************************************************************)
\* a goes before b by the comparator
Before(a, b) == CompareFn(a, b) < 0

\* C36: on the records of a collection, whose ids are distinct, the
\* comparator of the displayed list is a strict total order: of two records
\* exactly one goes before the other, and going before is transitive, also
\* among records of one date some of which have a rowIndex; the displayed
\* list is then the one arrangement in which every record goes before the
\* records after it.
C36_ComparatorIsStrictOrder ==
  LET ms == app.measurements
      shown == app.sortedMeasurements
  IN  /\ \A i, j \in DOMAIN ms : i # j => (Before(ms[i], ms[j]) <=> ~Before(ms[j], ms[i]))
      /\ \A i, j, k \in DOMAIN ms :
           (Before(ms[i], ms[j]) /\ Before(ms[j], ms[k])) => Before(ms[i], ms[k])
      /\ \A i, j \in DOMAIN shown : i < j => Before(shown[i], shown[j])

(***************************************************************************)
(* C37.  What the blob of the local store holds.                           *)
(***************************************************************************)
\* the records of the blob; none when the key is absent or does not parse
BlobItems(st) == IF st.blob.state = "ok" THEN st.blob.items ELSE << >>

\* the user deletes the records of this id in this step
DeletedByUser(id) ==
  /\ now' # now
  /\ \E i \in DOMAIN app.measurements : app.measurements[i]["id"] = id
  /\ \A i \in DOMAIN app'.measurements : app'.measurements[i]["id"] # id

\* C37: no step writes a record that was read from the remote table (one
\* that carries a rowIndex) into the blob, and no step takes a record out of
\* the blob unless the user deletes it in that step.
C37_BlobHoldsLocalRecords ==
  [][ /\ \A i \in DOMAIN BlobItems(store') : ~HasRowIndex(BlobItems(store')[i])
      /\ \A i \in DOMAIN BlobItems(store) :
           \/ \E j \in DOMAIN BlobItems(store') :
                BlobItems(store')[j]["id"] = BlobItems(store)[i]["id"]
           \/ DeletedByUser(BlobItems(store)[i]["id"])
    ]_vars

(***************************************************************************)
(* C38.  The collection and the blob of a signed-out, settled component.   *)
(***************************************************************************)
\* the component works on the local store
UsingLocal == ~app.isSignedIn /\ app.accessToken = Null

\* the ids of the records of ms are pairwise distinct
DistinctIds(ms) == \A i, j \in DOMAIN ms : i # j => ms[i]["id"] # ms[j]["id"]

\* the user submits the form and the record is saved locally in this step
LocalSaveStep ==
  /\ now' # now
  /\ app.currentView = "Form" /\ app'.currentView = "List"
  /\ store'.blob # store.blob \/ hist'.faults # hist.faults

\* C38: after every step that leaves the component signed out and settled,
\* the blob, unless its last write failed, reads as the collection, and the
\* ids of the collection are pairwise distinct; a local save of a signed-out
\* component puts the record in the place of the record of its id, the size
\* kept, or adds it, the size one more.
C38_BlobIsCollection ==
  [][ /\ (UsingLocal' /\ Quiet' /\ ~hist'.lost)
          => app'.measurements = ParseStored(store'.blob)
      /\ (UsingLocal' /\ Quiet') => DistinctIds(app'.measurements)
      /\ (UsingLocal /\ LocalSaveStep)
          => \E name \in Names :
               SavedInto(app.measurements,
                         [ app.editingMeasurement EXCEPT !["name"] = name ],
                         app'.measurements)
    ]_vars

====
